---- MODULE Spec2Model ----
(***************************************************************************)
(* Sentra: policy-decision gateway.  Model of the request handler          *)
(* (src/src/lib.rs), the plugin pipeline (src/src/plugins/mod.rs), the     *)
(* detectors (src/src/plugins/*.rs) and the evaluation context             *)
(* (src/src/util.rs).                                                      *)
(*                                                                         *)
(* Text is modelled by TLA+ strings, Option<T> by a sequence of length     *)
(* at most one (<<>> is None, <<x>> is Some(x)), a JSON value by a record   *)
(* [t |-> kind, v |-> content], a JSON object by a sequence of <<key,      *)
(* value>> pairs in key order (serde_json::Map is a BTreeMap).             *)
(***************************************************************************)
EXTENDS Integers, Sequences, FiniteSets, TLC

VARIABLES
    config,     \* AppState: the static configuration, fixed at startup
    task,       \* one record per handler task (request slot)
    served,     \* number of requests accepted by the transport so far
    metrics,    \* AppState counters and the request latency histogram
    eventSink,  \* lines of the event log (telemetry_writer)
    auditSink,  \* lines of the audit log (audit_writer)
    rejected,   \* error responses returned so far, newest last
    fnIn,       \* input of the pure function under test (function specs)
    fnOut       \* its result

vars == <<config, task, served, metrics, eventSink, auditSink,
          rejected, fnIn, fnOut>>

----------------------------------------------------------------------------
(* Bounds *)

MaxTasks == 1       \* handler tasks that can be in flight together
MaxServed == 2      \* requests received in one behaviour
MaxTime == 3        \* clock ticks that pass while one request is handled

----------------------------------------------------------------------------
(* Option<T> *)

None == <<>>
Some(x) == <<x>>
IsSome(o) == o # <<>>
Unwrap(o) == o[1]

----------------------------------------------------------------------------
(* str helpers (Rust std) *)

UpperChars == "ABCDEFGHIJKLMNOPQRSTUVWXYZ"
LowerChars == "abcdefghijklmnopqrstuvwxyz"
DigitChars == "0123456789"

CharAt(s, i) == SubSeq(s, i, i)
CharsOf(s) == {CharAt(s, i) : i \in 1..Len(s)}
UpperSet == CharsOf(UpperChars)
LowerSet == CharsOf(LowerChars)
DigitSet == CharsOf(DigitChars)
Whitespace == {" ", "\t", "\n", "\r"}

\* char::is_ascii_alphanumeric
is_ascii_alphanumeric(c) == c \in UpperSet \cup LowerSet \cup DigitSet

\* char::to_ascii_lowercase / to_lowercase on ASCII
LowerChar(c) ==
    IF c \in UpperSet
    THEN CharAt(LowerChars, CHOOSE i \in 1..26 : CharAt(UpperChars, i) = c)
    ELSE c

RECURSIVE to_lowercase(_)
to_lowercase(s) ==
    IF Len(s) = 0 THEN "" ELSE LowerChar(CharAt(s, 1)) \o to_lowercase(Tail(s))

\* str::eq_ignore_ascii_case
eq_ignore_ascii_case(a, b) == to_lowercase(a) = to_lowercase(b)

\* str::contains(pattern)
contains(t, p) ==
    \E i \in 0..(Len(t) - Len(p)) : SubSeq(t, i + 1, i + Len(p)) = p

\* str::starts_with / ends_with
starts_with(t, p) == Len(t) >= Len(p) /\ SubSeq(t, 1, Len(p)) = p
ends_with(t, p) ==
    Len(t) >= Len(p) /\ SubSeq(t, Len(t) - Len(p) + 1, Len(t)) = p

\* str::trim
RECURSIVE trim_start(_)
trim_start(s) ==
    IF Len(s) > 0 /\ CharAt(s, 1) \in Whitespace THEN trim_start(Tail(s)) ELSE s
RECURSIVE trim_end(_)
trim_end(s) ==
    IF Len(s) > 0 /\ CharAt(s, Len(s)) \in Whitespace
    THEN trim_end(SubSeq(s, 1, Len(s) - 1)) ELSE s
trim(s) == trim_end(trim_start(s))

\* [T]::join(sep) for strings
RECURSIVE join(_, _)
join(xs, sep) ==
    IF Len(xs) = 0 THEN ""
    ELSE IF Len(xs) = 1 THEN xs[1]
    ELSE xs[1] \o sep \o join(Tail(xs), sep)

\* sequence helpers
RECURSIVE Flatten(_)
Flatten(ss) == IF Len(ss) = 0 THEN <<>> ELSE ss[1] \o Flatten(Tail(ss))
Range(s) == {s[i] : i \in 1..Len(s)}
RECURSIVE SeqSum(_)
SeqSum(s) == IF Len(s) = 0 THEN 0 ELSE s[1] + SeqSum(Tail(s))

----------------------------------------------------------------------------
(* JSON values (serde_json::Value) *)

JStr(s) == [t |-> "string", v |-> s]
JNum(n) == [t |-> "number", v |-> n]
JBool(b) == [t |-> "bool", v |-> b]
JNull == [t |-> "null"]
JArr(a) == [t |-> "array", v |-> a]
JObj(o) == [t |-> "object", v |-> o]

\* serde_json::Map::get
MapGet(m, k) ==
    IF \E i \in 1..Len(m) : m[i][1] = k
    THEN Some(m[CHOOSE i \in 1..Len(m) : m[i][1] = k][2])
    ELSE None

----------------------------------------------------------------------------
(* AnalyzeResponse *)

AllowResponse ==
    [blockAction |-> FALSE, reasonCode |-> None, reason |-> None,
     blockedBy |-> None, diagnostics |-> None]

BlockResponse(code, reason, by, diag) ==
    [blockAction |-> TRUE, reasonCode |-> Some(code), reason |-> Some(reason),
     blockedBy |-> Some(by), diagnostics |-> Some(diag)]

----------------------------------------------------------------------------
(* Precomputed::from_request_message (util.rs) *)

\* the chat-history part of the buffer: every object item with a string
\* "content" contributes the content followed by one space
RECURSIVE HistoryText(_)
HistoryText(h) ==
    IF Len(h) = 0 THEN ""
    ELSE LET item == h[1]
             c == IF item.t = "object" THEN MapGet(item.v, "content") ELSE None
         IN (IF IsSome(c) /\ Unwrap(c).t = "string"
             THEN Unwrap(c).v \o " " ELSE "") \o HistoryText(Tail(h))

\* fn collect: lower-cased string leaves, arrays and objects recurse
RECURSIVE collect(_)
collect(val) ==
    CASE val.t = "string" -> <<to_lowercase(val.v)>>
      [] val.t = "array" -> Flatten([i \in 1..Len(val.v) |-> collect(val.v[i])])
      [] val.t = "object" ->
            Flatten([i \in 1..Len(val.v) |-> collect(val.v[i][2])])
      [] OTHER -> <<>>

IsUrlish(lower) ==
    contains(lower, "http://") \/ contains(lower, "https://")
        \/ contains(lower, "mailto:")

from_request_message(user_message, chat_history, input_values) ==
    LET full == (IF IsSome(user_message) THEN Unwrap(user_message) \o " " ELSE "")
                \o (IF IsSome(chat_history)
                    THEN HistoryText(Unwrap(chat_history)) ELSE "")
        strings == Flatten([i \in 1..Len(input_values) |->
                               collect(input_values[i][2])])
    IN [full_text_lower |-> to_lowercase(full),
        strings |-> strings,
        urls_lower |-> SelectSeq(strings, IsUrlish)]

----------------------------------------------------------------------------
(* ExfilPlugin (plugins/exfil.rs) *)

EXFIL_PATTERNS ==
    <<"export all data", "ignore previous instructions", "reveal secrets",
      "print the system prompt", "exfiltrate">>

ExfilEval(req, pre, cfg) ==
    LET hits == {i \in 1..Len(EXFIL_PATTERNS) :
                    contains(pre.full_text_lower, EXFIL_PATTERNS[i])}
    IN IF hits = {} THEN None
       ELSE LET i == CHOOSE k \in hits : \A j \in hits : k <= j
            IN Some(BlockResponse(111, "Detected data exfiltration pattern",
                      "exfil",
                      [plugin |-> "exfil", code |-> "pattern",
                       detail |-> EXFIL_PATTERNS[i]]))

----------------------------------------------------------------------------
(* SecretsPlugin (plugins/secrets.rs) *)

AwsKeyMinTail == 14

\* Regex (?i)akia[0-9a-z]{14,20}, is_match
AWS_KEY_RE(t) ==
    \E i \in 1..(Len(t) - 3 - AwsKeyMinTail) :
        /\ eq_ignore_ascii_case(SubSeq(t, i, i + 3), "akia")
        /\ \A j \in (i + 4)..(i + 3 + AwsKeyMinTail) :
               is_ascii_alphanumeric(CharAt(t, j))

SecretsEval(req, pre, cfg) ==
    IF AWS_KEY_RE(pre.full_text_lower)
           \/ \E i \in 1..Len(pre.strings) : AWS_KEY_RE(pre.strings[i])
    THEN Some(BlockResponse(201, "Detected AWS key", "secrets",
                            [plugin |-> "secrets", code |-> "aws_key"]))
    ELSE None

----------------------------------------------------------------------------
(* EmailBccPlugin (plugins/email_bcc.rs) *)

\* variant: the bcc value is compared as written, blanks included
EmailBccEval_NoTrim(req, pre, cfg) ==
    LET tool_name == to_lowercase(IF IsSome(req.toolName)
                                  THEN Unwrap(req.toolName) ELSE "")
        bcc == MapGet(req.inputValues, "bcc")
    IN IF ~contains(tool_name, "mail") /\ ~contains(tool_name, "email")
       THEN None
       ELSE IF IsSome(bcc) /\ Unwrap(bcc).t = "string"
       THEN LET addr == to_lowercase(Unwrap(bcc).v)
            IN IF addr # "" /\ ~ends_with(addr, "@" \o cfg.companyDomain)
               THEN Some(BlockResponse(112, "Noncompliant BCC domain.",
                           "email_bcc",
                           [plugin |-> "email_bcc", code |-> "bcc",
                            detail |-> addr]))
               ELSE None
       ELSE None

EmailBccEval(req, pre, cfg) ==
    LET tool_name == to_lowercase(IF IsSome(req.toolName)
                                  THEN Unwrap(req.toolName) ELSE "")
        bcc == MapGet(req.inputValues, "bcc")
    IN IF ~contains(tool_name, "mail") /\ ~contains(tool_name, "email")
       THEN None
       ELSE IF IsSome(bcc) /\ Unwrap(bcc).t = "string"
       THEN LET addr == to_lowercase(trim(Unwrap(bcc).v))
            IN IF addr # "" /\ ~ends_with(addr, "@" \o cfg.companyDomain)
               THEN Some(BlockResponse(112, "Noncompliant BCC domain.",
                           "email_bcc",
                           [plugin |-> "email_bcc", code |-> "bcc",
                            detail |-> addr]))
               ELSE None
       ELSE None

----------------------------------------------------------------------------
(* PiiPlugin (plugins/pii.rs) *)

EmailLocalSet == UpperSet \cup LowerSet \cup DigitSet \cup {"_", ".", "+", "-"}
EmailHostSet == UpperSet \cup LowerSet \cup DigitSet \cup {"-"}
EmailTailSet == EmailHostSet \cup {"."}
WordSet == UpperSet \cup LowerSet \cup DigitSet \cup {"_"}
PhoneSepSet == Whitespace \cup {".", "-"}

\* end of the maximal run of characters of set cs that starts at position p
\* (p - 1 when the run is empty)
RECURSIVE RunEnd(_, _, _)
RunEnd(t, p, cs) ==
    IF p <= Len(t) /\ CharAt(t, p) \in cs THEN RunEnd(t, p + 1, cs) ELSE p - 1

\* Regex [a-zA-Z0-9_.+-]+@[a-zA-Z0-9-]+\.[a-zA-Z0-9-.]+ : the end of the
\* match whose '@' is at position a, searching from position from; 0 if the
\* '@' at a starts no match
EmailMatchEnd(t, from, a) ==
    LET hostEnd == RunEnd(t, a + 1, EmailHostSet)
        tailEnd == RunEnd(t, hostEnd + 2, EmailTailSet)
    IN IF /\ CharAt(t, a) = "@"
          /\ a - 1 >= from /\ CharAt(t, a - 1) \in EmailLocalSet
          /\ hostEnd >= a + 1
          /\ hostEnd + 1 <= Len(t) /\ CharAt(t, hostEnd + 1) = "."
          /\ tailEnd >= hostEnd + 2
       THEN tailEnd ELSE 0

\* EMAIL_RE.find_iter(text): the matches, leftmost first, not overlapping;
\* each as <<position of '@', end>>
RECURSIVE EmailFindIter(_, _)
EmailFindIter(t, from) ==
    LET ats == {a \in from..Len(t) : EmailMatchEnd(t, from, a) > 0}
    IN IF ats = {} THEN <<>>
       ELSE LET a == CHOOSE x \in ats : \A y \in ats : x <= y
                e == EmailMatchEnd(t, from, a)
            IN <<[at |-> a, end |-> e,
                  start |-> (CHOOSE s \in from..a :
                                /\ \A k \in s..(a - 1) :
                                       CharAt(t, k) \in EmailLocalSet
                                /\ (s = from \/ CharAt(t, s - 1) \notin EmailLocalSet))]>>
               \o EmailFindIter(t, e + 1)

\* PiiPlugin::contains_non_company_pii
contains_non_company_pii(text, cfg) ==
    LET domain_pattern == "@" \o cfg.companyDomain
        ms == EmailFindIter(text, 1)
    IN \E i \in 1..Len(ms) :
           ~ends_with(to_lowercase(SubSeq(text, ms[i].start, ms[i].end)),
                      domain_pattern)

IbanMinTail == 10
IbanMaxTail == 30

\* Regex \b[A-Z]{2}\d{2}[A-Z0-9]{10,30}\b, is_match (case-sensitive)
IBAN_RE(t) ==
    \E i \in 1..Len(t) : \E n \in IbanMinTail..IbanMaxTail :
        /\ i + 3 + n <= Len(t)
        /\ (i = 1 \/ CharAt(t, i - 1) \notin WordSet)
        /\ CharAt(t, i) \in UpperSet /\ CharAt(t, i + 1) \in UpperSet
        /\ CharAt(t, i + 2) \in DigitSet /\ CharAt(t, i + 3) \in DigitSet
        /\ \A j \in (i + 4)..(i + 3 + n) : CharAt(t, j) \in UpperSet \cup DigitSet
        /\ (i + 3 + n = Len(t) \/ CharAt(t, i + 4 + n) \notin WordSet)

AllDigits(t, p, n) ==
    p + n - 1 <= Len(t) /\ \A j \in p..(p + n - 1) : CharAt(t, j) \in DigitSet

\* an optional single character of set cs at position p: the lengths consumed
OptLens(t, p, cs) ==
    {0} \cup (IF p <= Len(t) /\ CharAt(t, p) \in cs THEN {1} ELSE {})

PhoneMinDigits == 8

\* Regex \+?\d{1,3}[\s.-]?\(?(?:\d{1,4})\)?[\s.-]?\d{3,}[\s.-]?\d{3,}, is_match
PHONE_RE(t) ==
    /\ Cardinality({j \in 1..Len(t) : CharAt(t, j) \in DigitSet}) >= PhoneMinDigits
    /\ \E p \in 1..Len(t) : \E a \in 1..3 :
         /\ AllDigits(t, p, a)
         /\ \E s1 \in OptLens(t, p + a, PhoneSepSet) :
            \E o \in OptLens(t, p + a + s1, {"("}) :
            \E b \in 1..4 :
              /\ AllDigits(t, p + a + s1 + o, b)
              /\ \E c \in OptLens(t, p + a + s1 + o + b, {")"}) :
                 \E s2 \in OptLens(t, p + a + s1 + o + b + c, PhoneSepSet) :
                 \E m \in 3..Len(t) :
                   /\ AllDigits(t, p + a + s1 + o + b + c + s2, m)
                   /\ \E s3 \in OptLens(t, p + a + s1 + o + b + c + s2 + m,
                                        PhoneSepSet) :
                        AllDigits(t, p + a + s1 + o + b + c + s2 + m + s3, 3)

\* ac_for(list).is_match(hay): Aho-Corasick over the lower-cased keywords,
\* ASCII case-insensitive
AcIsMatch(list, hay) ==
    \E i \in 1..Len(list) : contains(to_lowercase(hay), to_lowercase(list[i]))

PiiBuiltin(text, cfg) ==
    contains_non_company_pii(text, cfg) \/ IBAN_RE(text) \/ PHONE_RE(text)

PiiBlock(code) ==
    Some(BlockResponse(202, "Detected potential PII in content.", "pii",
                       [plugin |-> "pii", code |-> code]))

\* the verdict for the input strings from index i on
RECURSIVE PiiStrings(_, _, _)
PiiStrings(strings, i, cfg) ==
    IF i > Len(strings) THEN None
    ELSE IF PiiBuiltin(strings[i], cfg) THEN PiiBlock("input")
    ELSE IF Len(cfg.piiKeywords) > 0 /\ AcIsMatch(cfg.piiKeywords, strings[i])
    THEN PiiBlock("keyword")
    ELSE PiiStrings(strings, i + 1, cfg)

PiiEval(req, pre, cfg) ==
    LET hay == pre.full_text_lower
    IN IF PiiBuiltin(hay, cfg) THEN PiiBlock("builtin")
       ELSE IF Len(cfg.piiKeywords) > 0 /\ AcIsMatch(cfg.piiKeywords, hay)
       THEN PiiBlock("keyword")
       ELSE PiiStrings(pre.strings, 1, cfg)

----------------------------------------------------------------------------
(* DomainBlockPlugin (plugins/domain_block.rs) *)

DomainBoundaryOk(c) == ~is_ascii_alphanumeric(c) /\ c # "-"

\* one domain's scan loop of domain_in_text from byte offset search_start:
\* "found" with the offset, "none", or "diverge" when an iteration leaves
\* search_start where it was (the loop then repeats that iteration forever)
RECURSIVE DomainScan(_, _, _)
DomainScan(text, domain, search_start) ==
    LET hits == {i \in search_start..(Len(text) - Len(domain)) :
                    SubSeq(text, i + 1, i + Len(domain)) = domain}
    IN IF hits = {} THEN [kind |-> "none"]
       ELSE LET abs_start == CHOOSE x \in hits : \A y \in hits : x <= y
                abs_end == abs_start + Len(domain)
                before_ok == abs_start = 0
                                \/ DomainBoundaryOk(CharAt(text, abs_start))
                after_ok == abs_end >= Len(text)
                               \/ DomainBoundaryOk(CharAt(text, abs_end + 1))
            IN IF before_ok /\ after_ok
               THEN [kind |-> "found", domain |-> domain, pos |-> abs_start]
               ELSE IF abs_end = search_start THEN [kind |-> "diverge"]
               ELSE DomainScan(text, domain, abs_end)

\* domain_in_text: the domains in list order, from index i on
RECURSIVE domain_in_text_from(_, _, _)
domain_in_text_from(text, domains, i) ==
    IF i > Len(domains) THEN [kind |-> "none"]
    ELSE LET r == DomainScan(text, domains[i], 0)
         IN IF r.kind = "none" THEN domain_in_text_from(text, domains, i + 1)
            ELSE r

domain_in_text(text, domains) == domain_in_text_from(text, domains, 1)

DEFAULT_DOMAINS == <<"example.com", "mailinator.com", "tempmail", "evil.com">>

DomainList(cfg) ==
    IF Len(cfg.domainBlocklist) = 0 THEN DEFAULT_DOMAINS ELSE cfg.domainBlocklist

\* the haystacks in the order eval scans them
DomainHaystacks(pre) == <<pre.full_text_lower>> \o pre.strings

\* the first haystack whose scan does not end in "none", 0 if there is none
DomainFirstHit(pre, cfg) ==
    LET hs == DomainHaystacks(pre)
        idx == {i \in 1..Len(hs) : domain_in_text(hs[i], DomainList(cfg)).kind # "none"}
    IN IF idx = {} THEN 0 ELSE CHOOSE x \in idx : \A y \in idx : x <= y

\* eval returns iff no scan it runs diverges
DomainBlockTerminates(pre, cfg) ==
    LET i == DomainFirstHit(pre, cfg)
    IN IF i = 0 THEN TRUE
       ELSE domain_in_text(DomainHaystacks(pre)[i], DomainList(cfg)).kind = "found"

DomainBlockEval(req, pre, cfg) ==
    LET i == DomainFirstHit(pre, cfg)
    IN IF i = 0 THEN None
       ELSE LET r == domain_in_text(DomainHaystacks(pre)[i], DomainList(cfg))
            IN Some(BlockResponse(113, "Input contains disallowed domain.",
                      "domain_block",
                      [plugin |-> "domain_block", code |-> "domain",
                       detail |-> r.domain]))

----------------------------------------------------------------------------
(* PolicyPackPlugin (plugins/policy_pack.rs) *)

MAX_PATTERNS == 50
MAX_PATTERN_LEN == 500
DefaultPolicyReasonCode == 700

\* Regex::new("(?i)" + pat): the model's patterns are literals, except the
\* pattern "(" which does not compile
RegexCompiles(pat) == pat # "("
RegexIsMatch(pat, text) == contains(to_lowercase(text), to_lowercase(pat))

\* PolicyPackPlugin::new for one rule: truncate, drop oversized, compile
CompiledRule(r) ==
    LET truncated == SubSeq(r.patterns, 1,
                            IF Len(r.patterns) > MAX_PATTERNS
                            THEN MAX_PATTERNS ELSE Len(r.patterns))
        kept == SelectSeq(truncated, LAMBDA p : Len(p) <= MAX_PATTERN_LEN)
    IN [tool |-> IF IsSome(r.tool) THEN Some(to_lowercase(Unwrap(r.tool))) ELSE None,
        arg |-> IF IsSome(r.arg) THEN Some(to_lowercase(Unwrap(r.arg))) ELSE None,
        contains |-> [i \in 1..Len(r.contains) |-> to_lowercase(r.contains[i])],
        regexes |-> SelectSeq(kept, RegexCompiles),
        reason_code |-> IF IsSome(r.reasonCode) THEN Unwrap(r.reasonCode)
                        ELSE DefaultPolicyReasonCode,
        reason |-> r.reason]

PolicyTargets(rule, req, pre) ==
    IF IsSome(rule.arg)
    THEN LET val == MapGet(req.inputValues, Unwrap(rule.arg))
         IN IF IsSome(val) /\ Unwrap(val).t = "string"
            THEN <<Unwrap(val).v>> ELSE <<>>
    ELSE <<pre.full_text_lower>> \o pre.strings

PolicyRuleFires(rule, req, pre) ==
    /\ IsSome(rule.tool) =>
           to_lowercase(IF IsSome(req.toolName) THEN Unwrap(req.toolName) ELSE "")
               = Unwrap(rule.tool)
    /\ LET targets == PolicyTargets(rule, req, pre)
       IN \E k \in 1..Len(targets) :
            LET tl == to_lowercase(targets[k])
            IN \/ \E c \in 1..Len(rule.contains) : contains(tl, rule.contains[c])
               \/ \E x \in 1..Len(rule.regexes) : RegexIsMatch(rule.regexes[x], tl)

\* variant: the last rule that fires decides
PolicyPackEval_LastWins(req, pre, cfg) ==
    LET rules == [i \in 1..Len(cfg.policies) |-> CompiledRule(cfg.policies[i])]
        fired == {i \in 1..Len(rules) : PolicyRuleFires(rules[i], req, pre)}
    IN IF fired = {} THEN None
       ELSE LET rule == rules[CHOOSE x \in fired : \A y \in fired : y <= x]
            IN Some(BlockResponse(rule.reason_code,
                      IF IsSome(rule.reason) THEN Unwrap(rule.reason)
                      ELSE "Policy rule triggered",
                      "policy_pack",
                      [plugin |-> "policy_pack", code |-> "policy"]))

PolicyPackEval(req, pre, cfg) ==
    LET rules == [i \in 1..Len(cfg.policies) |-> CompiledRule(cfg.policies[i])]
        fired == {i \in 1..Len(rules) : PolicyRuleFires(rules[i], req, pre)}
    IN IF fired = {} THEN None
       ELSE LET rule == rules[CHOOSE x \in fired : \A y \in fired : x <= y]
            IN Some(BlockResponse(rule.reason_code,
                      IF IsSome(rule.reason) THEN Unwrap(rule.reason)
                      ELSE "Policy rule triggered",
                      "policy_pack",
                      [plugin |-> "policy_pack", code |-> "policy"]))

----------------------------------------------------------------------------
(* ExternalHttpPlugin (plugins/external_http.rs) *)

DefaultTimeoutMs == 500
DefaultExternalReasonCode == 801

\* a definition with the serde defaults
ExternalHttpDefinition(name) ==
    [name |-> name, timeoutMs |-> DefaultTimeoutMs, blockField |-> "block",
     reasonCode |-> DefaultExternalReasonCode, reason |-> None,
     failOpen |-> TRUE, nonEmptyPointerBlocks |-> FALSE]

\* the reference tokens of a JSON pointer that starts with '/'
RECURSIVE PointerTokens(_)
PointerTokens(p) ==
    IF Len(p) = 0 THEN <<>>
    ELSE LET rest == Tail(p)
             cut == {i \in 1..Len(rest) : CharAt(rest, i) = "/"}
             e == IF cut = {} THEN Len(rest) + 1
                  ELSE CHOOSE x \in cut : \A y \in cut : x <= y
         IN <<SubSeq(rest, 1, e - 1)>> \o PointerTokens(SubSeq(rest, e, Len(rest)))

\* an array index token: decimal digits, no sign, no leading zero
RECURSIVE ParseIndex(_)
ParseIndex(tok) ==
    IF Len(tok) = 0 THEN 0
    ELSE 10 * ParseIndex(SubSeq(tok, 1, Len(tok) - 1))
         + ((CHOOSE i \in 1..10 : CharAt(DigitChars, i) = CharAt(tok, Len(tok))) - 1)
IsIndex(tok) ==
    /\ Len(tok) > 0
    /\ \A i \in 1..Len(tok) : CharAt(tok, i) \in DigitSet
    /\ (Len(tok) > 1 => CharAt(tok, 1) # "0")

RECURSIVE PointerWalk(_, _)
PointerWalk(val, toks) ==
    IF Len(toks) = 0 THEN Some(val)
    ELSE CASE val.t = "object" ->
                LET nxt == MapGet(val.v, toks[1])
                IN IF IsSome(nxt) THEN PointerWalk(Unwrap(nxt), Tail(toks)) ELSE None
           [] val.t = "array" ->
                IF IsIndex(toks[1]) /\ ParseIndex(toks[1]) < Len(val.v)
                THEN PointerWalk(val.v[ParseIndex(toks[1]) + 1], Tail(toks))
                ELSE None
           [] OTHER -> None

\* serde_json::Value::pointer
JsonPointer(val, p) ==
    IF p = "" THEN Some(val)
    ELSE IF ~starts_with(p, "/") THEN None
    ELSE PointerWalk(val, PointerTokens(p))

NonEmptyContainer(v) ==
    IF v.t \in {"array", "object"} THEN Some(Len(v.v) > 0) ELSE None

\* variant: "allow" is read like "block", without the negation
extract_block_AllowAsBlock(def, val) ==
    LET field == def.blockField
        root(k) == IF val.t = "object" THEN MapGet(val.v, k) ELSE None
    IN CASE field = "block" ->
              IF IsSome(root("block")) /\ Unwrap(root("block")).t = "bool"
              THEN Some(Unwrap(root("block")).v) ELSE None
         [] field = "allow" ->
              IF IsSome(root("allow")) /\ Unwrap(root("allow")).t = "bool"
              THEN Some(Unwrap(root("allow")).v) ELSE None
         [] field = "/" ->
              IF def.nonEmptyPointerBlocks
              THEN (IF val.t = "bool" THEN Some(val.v) ELSE NonEmptyContainer(val))
              ELSE None
         [] field \notin {"block", "allow", "/"} /\ contains(field, "/") ->
              LET ptr == JsonPointer(val, field)
              IN IF ~IsSome(ptr) THEN None
                 ELSE IF Unwrap(ptr).t = "bool" THEN Some(Unwrap(ptr).v)
                 ELSE IF def.nonEmptyPointerBlocks
                 THEN NonEmptyContainer(Unwrap(ptr))
                 ELSE None
         [] OTHER -> None

\* ExternalHttpPlugin::extract_block
extract_block(def, val) ==
    LET field == def.blockField
        root(k) == IF val.t = "object" THEN MapGet(val.v, k) ELSE None
    IN CASE field = "block" ->
              IF IsSome(root("block")) /\ Unwrap(root("block")).t = "bool"
              THEN Some(Unwrap(root("block")).v) ELSE None
         [] field = "allow" ->
              IF IsSome(root("allow")) /\ Unwrap(root("allow")).t = "bool"
              THEN Some(~Unwrap(root("allow")).v) ELSE None
         [] field = "/" ->
              IF def.nonEmptyPointerBlocks
              THEN (IF val.t = "bool" THEN Some(val.v) ELSE NonEmptyContainer(val))
              ELSE None
         [] field \notin {"block", "allow", "/"} /\ contains(field, "/") ->
              LET ptr == JsonPointer(val, field)
              IN IF ~IsSome(ptr) THEN None
                 ELSE IF Unwrap(ptr).t = "bool" THEN Some(Unwrap(ptr).v)
                 ELSE IF def.nonEmptyPointerBlocks
                 THEN NonEmptyContainer(Unwrap(ptr))
                 ELSE None
         [] OTHER -> None

ExternalBlock(def, defaultReason, diag) ==
    Some(BlockResponse(def.reasonCode,
                       IF IsSome(def.reason) THEN Unwrap(def.reason)
                       ELSE defaultReason,
                       def.name, diag))

\* variant: a body that cannot be read is let through whatever failOpen says
ExternalHttpEval_ReadErrorOpen(def, remote) ==
    CASE remote.kind = "network_error" ->
            IF ~def.failOpen
            THEN ExternalBlock(def, "External HTTP error",
                     [plugin |-> "external_http", code |-> "network_error"])
            ELSE None
      [] remote.kind = "read_error" -> None
      [] remote.kind = "parse_error" ->
            IF ~def.failOpen
            THEN ExternalBlock(def, "External HTTP parse error",
                     [plugin |-> "external_http", code |-> "parse_error",
                      status |-> remote.status])
            ELSE None
      [] remote.kind = "json" ->
            IF extract_block(def, remote.json) = Some(TRUE)
            THEN ExternalBlock(def, "External policy block",
                     [plugin |-> "external_http", code |-> "block",
                      status |-> remote.status])
            ELSE None

\* ExternalHttpPlugin::eval, given what the remote call produced:
\*   [kind |-> "network_error"]           send() failed (also a timeout)
\*   [kind |-> "read_error", status]      the body could not be read
\*   [kind |-> "parse_error", status]     the body is not JSON
\*   [kind |-> "json", status, json]      the body parsed to json
ExternalHttpEval(def, remote) ==
    CASE remote.kind = "network_error" ->
            IF ~def.failOpen
            THEN ExternalBlock(def, "External HTTP error",
                     [plugin |-> "external_http", code |-> "network_error"])
            ELSE None
      [] remote.kind = "read_error" ->
            IF ~def.failOpen
            THEN ExternalBlock(def, "External HTTP read error",
                     [plugin |-> "external_http", code |-> "read_error"])
            ELSE None
      [] remote.kind = "parse_error" ->
            IF ~def.failOpen
            THEN ExternalBlock(def, "External HTTP parse error",
                     [plugin |-> "external_http", code |-> "parse_error",
                      status |-> remote.status])
            ELSE None
      [] remote.kind = "json" ->
            IF extract_block(def, remote.json) = Some(TRUE)
            THEN ExternalBlock(def, "External policy block",
                     [plugin |-> "external_http", code |-> "block",
                      status |-> remote.status])
            ELSE None

----------------------------------------------------------------------------
(* PluginPipeline::new and the Plugin trait (plugins/mod.rs) *)

BuiltinNames == {"exfil", "secrets", "pii", "email_bcc", "domain_block"}

\* variant: policy_pack is registered even when there are no policies
RegisterPlugin_PolicyPackAlways(name, cfg) ==
    CASE name \in BuiltinNames \cup {"policy_pack"} ->
            <<[kind |-> name, name |-> name, def |-> None]>>
      [] name \notin BuiltinNames \cup {"policy_pack"}
            /\ starts_with(name, "external_") ->
            LET found == {i \in 1..Len(cfg.externalHttp) :
                             cfg.externalHttp[i].name = name}
            IN IF found = {} THEN <<>>
               ELSE LET d == cfg.externalHttp[CHOOSE x \in found :
                                                 \A y \in found : x <= y]
                    IN <<[kind |-> "external_http", name |-> d.name,
                          def |-> Some(d)]>>
      [] OTHER -> <<>>

\* the plugins one name of the order list contributes: one or none
RegisterPlugin(name, cfg) ==
    CASE name \in BuiltinNames -> <<[kind |-> name, name |-> name, def |-> None]>>
      [] name = "policy_pack" ->
            IF Len(cfg.policies) > 0
            THEN <<[kind |-> "policy_pack", name |-> "policy_pack", def |-> None]>>
            ELSE <<>>
      [] name \notin BuiltinNames \cup {"policy_pack"}
            /\ starts_with(name, "external_") ->
            LET found == {i \in 1..Len(cfg.externalHttp) :
                             cfg.externalHttp[i].name = name}
            IN IF found = {} THEN <<>>
               ELSE LET d == cfg.externalHttp[CHOOSE x \in found :
                                                 \A y \in found : x <= y]
                    IN <<[kind |-> "external_http", name |-> d.name,
                          def |-> Some(d)]>>
      [] OTHER -> <<>>

PipelineNew(order, cfg) ==
    Flatten([i \in 1..Len(order) |-> RegisterPlugin(order[i], cfg)])

\* what the remote service of an external detector can produce
RemoteOutcomes ==
    { [kind |-> "network_error"],
      [kind |-> "parse_error", status |-> 200],
      [kind |-> "json", status |-> 200,
       json |-> JObj(<<<<"block", JBool(TRUE)>>>>)],
      [kind |-> "json", status |-> 200,
       json |-> JObj(<<<<"block", JBool(FALSE)>>>>)] }

NoRemote == [kind |-> "none"]

\* the remote outcomes a plugin's eval depends on
RemotesOf(plugin) ==
    IF plugin.kind = "external_http" THEN RemoteOutcomes ELSE {NoRemote}

\* Plugin::eval returns (a detector whose scan loop never ends does not)
PluginTerminates(plugin, pre, cfg) ==
    IF plugin.kind = "domain_block" THEN DomainBlockTerminates(pre, cfg) ELSE TRUE

\* Plugin::eval by dynamic dispatch
PluginEval(plugin, req, pre, cfg, remote) ==
    CASE plugin.kind = "exfil" -> ExfilEval(req, pre, cfg)
      [] plugin.kind = "secrets" -> SecretsEval(req, pre, cfg)
      [] plugin.kind = "pii" -> PiiEval(req, pre, cfg)
      [] plugin.kind = "email_bcc" -> EmailBccEval(req, pre, cfg)
      [] plugin.kind = "domain_block" -> DomainBlockEval(req, pre, cfg)
      [] plugin.kind = "policy_pack" -> PolicyPackEval(req, pre, cfg)
      [] plugin.kind = "external_http" -> ExternalHttpEval(Unwrap(plugin.def), remote)

----------------------------------------------------------------------------
(* Deadline (util.rs) and whole-millisecond readings of the clock *)

TicksPerMs == 2

\* variant: a started millisecond counts as a whole one
as_millis_RoundUp(ticks) == (ticks + TicksPerMs - 1) \div TicksPerMs

\* Duration::as_millis
as_millis(ticks) == ticks \div TicksPerMs

\* Deadline::exceeded: start.elapsed() >= budget
exceeded(start, budgetMs, t) == t - start >= budgetMs * TicksPerMs

----------------------------------------------------------------------------
(* Request checks of the handlers (lib.rs) *)

API_VERSION == "2025-05-01"
AxumDefaultBodyLimit == 2097152

ErrorResponse(code, msg, status) ==
    [errorCode |-> Some(code), message |-> msg, httpStatus |-> status]

\* a rejection answered by the framework: no ErrorResponse body
FrameworkResponse(status) ==
    [errorCode |-> None, message |-> "", httpStatus |-> status]

\* str::parse::<usize>: an optional '+', then decimal digits
ParseUsize(s) ==
    LET d == IF Len(s) > 0 /\ CharAt(s, 1) = "+" THEN Tail(s) ELSE s
    IN IF Len(d) > 0 /\ \A i \in 1..Len(d) : CharAt(d, i) \in DigitSet
       THEN Some(ParseIndex(d)) ELSE None

\* the Content-Length guard at the top of analyze_handler
SizeGuard(http, cfg) ==
    IF IsSome(cfg.maxRequestBytes) /\ IsSome(http.contentLength)
         /\ IsSome(ParseUsize(Unwrap(http.contentLength)))
         /\ Unwrap(ParseUsize(Unwrap(http.contentLength))) > Unwrap(cfg.maxRequestBytes)
    THEN Some(ErrorResponse(4001,
                "Request too large ("
                  \o ToString(Unwrap(ParseUsize(Unwrap(http.contentLength))))
                  \o " bytes > limit " \o ToString(Unwrap(cfg.maxRequestBytes))
                  \o " bytes)", 413))
    ELSE None

\* variant: a version other than the supported one is rejected as well
ensure_api_version_Strict(http) ==
    IF ~IsSome(http.apiVersion) \/ Unwrap(http.apiVersion) # API_VERSION
    THEN Some(ErrorResponse(4000,
                "Missing api-version (expected " \o API_VERSION \o ")", 400))
    ELSE None

ensure_api_version(http) ==
    IF ~IsSome(http.apiVersion)
    THEN Some(ErrorResponse(4000,
                "Missing api-version (expected " \o API_VERSION \o ")", 400))
    ELSE None

authorization_error == ErrorResponse(2001, "Unauthorized", 401)

\* extract_bearer_token: Some(token), or None for Err(authorization_error())
extract_bearer_token(http) ==
    IF ~IsSome(http.authorization) THEN None
    ELSE LET raw == Unwrap(http.authorization)
         IN IF Len(raw) < 7 \/ ~eq_ignore_ascii_case(SubSeq(raw, 1, 6), "bearer")
            THEN None
            ELSE LET token == trim(SubSeq(raw, 7, Len(raw)))
                 IN IF token = "" THEN None ELSE Some(token)

ensure_authorized(http, allowed_tokens) ==
    LET token == extract_bearer_token(http)
    IN IF ~IsSome(token) THEN Some(authorization_error)
       ELSE IF IsSome(allowed_tokens) /\ Unwrap(token) \notin Unwrap(allowed_tokens)
       THEN Some(authorization_error)
       ELSE None

\* variant: a body of exactly the limit is rejected
JsonExtract_LimitInclusive(http, cfg) ==
    LET limit == IF IsSome(cfg.maxRequestBytes) THEN Unwrap(cfg.maxRequestBytes)
                 ELSE AxumDefaultBodyLimit
    IN IF ~http.jsonContentType THEN [ok |-> FALSE, kind |-> "content_type"]
       ELSE IF http.bodyLen >= limit THEN [ok |-> FALSE, kind |-> "length_limit"]
       ELSE IF http.body.kind # "json" THEN [ok |-> FALSE, kind |-> http.body.kind]
       ELSE [ok |-> TRUE, payload |-> http.body.payload]

\* the Json<AnalyzeRequest> extractor behind the DefaultBodyLimit layer:
\* Some(payload), or the rejection kind
JsonExtract(http, cfg) ==
    LET limit == IF IsSome(cfg.maxRequestBytes) THEN Unwrap(cfg.maxRequestBytes)
                 ELSE AxumDefaultBodyLimit
    IN IF ~http.jsonContentType THEN [ok |-> FALSE, kind |-> "content_type"]
       ELSE IF http.bodyLen > limit THEN [ok |-> FALSE, kind |-> "length_limit"]
       ELSE IF http.body.kind # "json" THEN [ok |-> FALSE, kind |-> http.body.kind]
       ELSE [ok |-> TRUE, payload |-> http.body.payload]

handle_json_rejection(cfg, kind) ==
    CASE kind = "length_limit" ->
            ErrorResponse(4001,
                IF IsSome(cfg.maxRequestBytes)
                THEN "Request too large (body exceeded limit "
                       \o ToString(Unwrap(cfg.maxRequestBytes)) \o " bytes)"
                ELSE "Request too large", 413)
      [] kind = "content_type" -> FrameworkResponse(415)
      [] kind = "syntax" -> FrameworkResponse(400)
      [] kind = "data" -> FrameworkResponse(422)

IsBlank(o) == ~IsSome(o) \/ trim(Unwrap(o)) = ""

\* variant: a field of whitespace only counts as present
missing_required_fields_NoTrim(payload) ==
    (IF ~IsSome(payload.userMessage) \/ Unwrap(payload.userMessage) = ""
     THEN <<"plannerContext.userMessage">> ELSE <<>>)
    \o (IF ~IsSome(payload.toolName) \/ Unwrap(payload.toolName) = ""
        THEN <<"toolDefinition.name">> ELSE <<>>)

\* AnalyzeRequest::missing_required_fields
missing_required_fields(payload) ==
    (IF IsBlank(payload.userMessage) THEN <<"plannerContext.userMessage">> ELSE <<>>)
    \o (IF IsBlank(payload.toolName) THEN <<"toolDefinition.name">> ELSE <<>>)

\* variant: the body extractor's rejection is answered before the handler's
\* own checks
AnalyzeChecks_ParseFirst(http, cfg) ==
    LET ex == JsonExtract(http, cfg)
    IN IF ~ex.ok THEN Some(handle_json_rejection(cfg, ex.kind))
       ELSE IF IsSome(SizeGuard(http, cfg)) THEN SizeGuard(http, cfg)
       ELSE IF IsSome(ensure_api_version(http)) THEN ensure_api_version(http)
       ELSE IF IsSome(ensure_authorized(http, cfg.allowedTokens))
       THEN ensure_authorized(http, cfg.allowedTokens)
       ELSE IF Len(missing_required_fields(ex.payload)) > 0
       THEN Some(ErrorResponse(4002,
                   "Missing or empty required field(s): "
                     \o join(missing_required_fields(ex.payload), ", "), 400))
       ELSE None

\* analyze_handler up to the pipeline: Some(error response), or None when
\* the request goes on to be evaluated
AnalyzeChecks(http, cfg) ==
    LET ex == JsonExtract(http, cfg)
    IN IF IsSome(SizeGuard(http, cfg)) THEN SizeGuard(http, cfg)
       ELSE IF IsSome(ensure_api_version(http)) THEN ensure_api_version(http)
       ELSE IF IsSome(ensure_authorized(http, cfg.allowedTokens))
       THEN ensure_authorized(http, cfg.allowedTokens)
       ELSE IF ~ex.ok THEN Some(handle_json_rejection(cfg, ex.kind))
       ELSE IF Len(missing_required_fields(ex.payload)) > 0
       THEN Some(ErrorResponse(4002,
                   "Missing or empty required field(s): "
                     \o join(missing_required_fields(ex.payload), ", "), 400))
       ELSE None

\* validate_handler: the response status and body
ValidateResponse(http, cfg) ==
    IF IsSome(ensure_api_version(http)) THEN ensure_api_version(http)
    ELSE ensure_authorized(http, cfg.allowedTokens)

----------------------------------------------------------------------------
(* Requests *)

AnalyzeRequest(msg, tool, inputs) ==
    [userMessage |-> msg, toolName |-> tool, chatHistory |-> None,
     inputValues |-> inputs]

PBenign == AnalyzeRequest(Some("Send update"), Some("SendEmail"),
               <<<<"to", JStr("alice@yourcompany.com")>>>>)
PSecret == AnalyzeRequest(Some("Here is my key AKIAABCDEFGH123456"),
               Some("SendEmail"), <<<<"to", JStr("alice@yourcompany.com")>>>>)
PExfil == AnalyzeRequest(Some("Please export all data"), Some("SendEmail"),
               <<<<"to", JStr("bob@yourcompany.com")>>>>)
PBcc == AnalyzeRequest(Some("Send"), Some("SendEmail"),
               <<<<"bcc", JStr("hacker@mailinator.com")>>,
                 <<"to", JStr("bob@yourcompany.com")>>>>)
PDomain == AnalyzeRequest(Some("Hello"), Some("Fetch"),
               <<<<"url", JStr("http://evil.com/attack")>>>>)
PNoMessage == AnalyzeRequest(None, Some("SendEmail"), <<>>)
PBlankTool == AnalyzeRequest(Some("Hello"), Some("  "), <<>>)
PBothMissing == AnalyzeRequest(Some(" "), None, <<>>)

\* the payloads that pass the required-field validation
Payloads == {PBenign, PSecret, PExfil, PBcc, PDomain}

HttpRequest(cl, len, api, auth, ctype, kind, payload) ==
    [contentLength |-> cl, bodyLen |-> len, apiVersion |-> api,
     authorization |-> auth, jsonContentType |-> ctype, correlationId |-> None,
     body |-> [kind |-> kind, payload |-> payload]]

GoodHttp(p) ==
    HttpRequest(None, 100, Some(API_VERSION), Some("Bearer tok1"), TRUE, "json", p)

\* requests that fail one or several of the handler's checks
BadHttp ==
    { HttpRequest(Some("2000"), 2000, None, None, TRUE, "json", PBenign),
      HttpRequest(None, 100, None, Some("Bearer tok1"), TRUE, "json", PBenign),
      HttpRequest(None, 100, Some(API_VERSION), Some("Basic tok1"), TRUE,
                  "syntax", PBenign),
      HttpRequest(None, 100, Some("2024-01-01"), Some("bEaReR tok1"), TRUE,
                  "json", PNoMessage) }

HttpRequests == {GoodHttp(p) : p \in Payloads} \cup BadHttp

----------------------------------------------------------------------------
(* Configuration (AppConfig, PluginConfig, build_state_from_env) *)

DefaultBudgetMs == 900
DefaultWarnMs == 120

DefaultOrder ==
    <<"exfil", "secrets", "email_bcc", "pii", "domain_block", "policy_pack">>

BaseConfig ==
    [order |-> DefaultOrder, policies |-> <<>>, externalHttp |-> <<>>,
     companyDomain |-> "yourcompany.com", piiKeywords |-> <<>>,
     domainBlocklist |-> <<>>, auditOnly |-> FALSE, allowedTokens |-> None,
     maxRequestBytes |-> None, budgetMs |-> DefaultBudgetMs,
     warnMs |-> DefaultWarnMs, telemetryWriter |-> TRUE, auditWriter |-> FALSE]

ExternalA == [ExternalHttpDefinition("external_a") EXCEPT !.failOpen = FALSE]
ExternalB == [ExternalHttpDefinition("external_b") EXCEPT !.reasonCode = 860]

RuleUpdate ==
    [tool |-> None, arg |-> None, contains |-> <<"update">>, patterns |-> <<>>,
     reasonCode |-> None, reason |-> None]

Configs ==
    { [BaseConfig EXCEPT !.order = <<"secrets", "pii", "exfil">>],
      [BaseConfig EXCEPT !.order = <<"secrets", "pii">>, !.auditOnly = TRUE,
                         !.auditWriter = TRUE],
      [BaseConfig EXCEPT !.order = <<"bogus", "policy_pack", "exfil", "external_a">>,
                         !.externalHttp = <<ExternalA>>, !.auditOnly = TRUE,
                         !.budgetMs = 1, !.telemetryWriter = FALSE],
      [BaseConfig EXCEPT !.order = <<"external_b", "email_bcc", "domain_block">>,
                         !.externalHttp = <<ExternalB>>,
                         !.allowedTokens = Some({"tok1"}),
                         !.maxRequestBytes = Some(256), !.budgetMs = 1],
      [BaseConfig EXCEPT !.order = <<"policy_pack", "domain_block">>,
                         !.policies = <<RuleUpdate>>, !.auditOnly = TRUE,
                         !.budgetMs = 0] }

\* build_state_from_env: the pipeline is constructed once from the order
AppState(cfg) == cfg @@ [pipeline |-> PipelineNew(cfg.order, cfg)]

----------------------------------------------------------------------------
(* Metrics (AppState, PluginMetrics) *)

HIST_BUCKETS == <<1, 2, 5, 10, 20, 50, 100, 200, 500, 1000, 2000>>

ZeroHist == [i \in 1..Len(HIST_BUCKETS) |-> 0]

ZeroPluginMetrics ==
    [eval_sum_ms |-> 0, eval_count |-> 0, block_count |-> 0,
     hist_counts |-> ZeroHist, hist_sum_ms |-> 0, hist_count |-> 0]

ZeroMetrics(order) ==
    [requests_total |-> 0, blocks_total |-> 0, audit_suppressed_total |-> 0,
     lines_total |-> 0, write_errors_total |-> 0,
     hist_counts |-> ZeroHist, hist_sum_ms |-> 0, hist_count |-> 0,
     plugin |-> [i \in 1..Len(order) |-> ZeroPluginMetrics]]

\* variant: the bound itself belongs to the next bucket
Observe_Exclusive(counts, v) ==
    LET fits == {i \in 1..Len(HIST_BUCKETS) : v < HIST_BUCKETS[i]}
    IN IF fits = {} THEN counts
       ELSE LET i == CHOOSE x \in fits : \A y \in fits : x <= y
            IN [counts EXCEPT ![i] = @ + 1]

\* the loop "find first bucket >= value": the counts after observing v
Observe(counts, v) ==
    LET fits == {i \in 1..Len(HIST_BUCKETS) : v <= HIST_BUCKETS[i]}
    IN IF fits = {} THEN counts
       ELSE LET i == CHOOSE x \in fits : \A y \in fits : x <= y
            IN [counts EXCEPT ![i] = @ + 1]

\* plugin_metric_indices.get(name): the map is filled in order, so a later
\* duplicate of a name replaces the earlier index; 0 when absent
MetricIndex(order, name) ==
    LET at == {i \in 1..Len(order) : order[i] = name}
    IN IF at = {} THEN 0 ELSE CHOOSE x \in at : \A y \in at : y <= x

----------------------------------------------------------------------------
(* State machine: analyze_handler and evaluate_with_timings *)

Tasks == 1..MaxTasks

IdleTask ==
    [pc |-> "idle", req |-> None, corr |-> "", pre |-> None, now |-> 0,
     start |-> 0, deadline |-> 0, idx |-> 0, pstart |-> 0, timings |-> <<>>, raw |-> None,
     response |-> None, latency |-> 0, k |-> 0, status |-> 0,
     \* history of the task, for the properties
     invoked |-> <<>>, runs |-> <<>>, checked |-> <<>>, events |-> <<>>,
     audits |-> <<>>, writes |-> <<>>]

Init ==
    /\ config \in {AppState(c) : c \in Configs}
    /\ task = [r \in Tasks |-> IdleTask]
    /\ served = 0
    /\ metrics = ZeroMetrics(config.order)
    /\ eventSink = <<>>
    /\ auditSink = <<>>
    /\ rejected = <<>>
    /\ fnIn = None
    /\ fnOut = None

\* the monotonic clock (Instant::now) as task r reads it, in ticks since the
\* request was received; it matters up to the task's last reading of it
Timed == {"ctx", "loop", "eval", "post"}

Tick(r) ==
    /\ task[r].pc \in Timed
    /\ task[r].now < MaxTime
    /\ task' = [task EXCEPT ![r].now = @ + 1]
    /\ UNCHANGED <<config, served, metrics, eventSink, auditSink,
                   rejected, fnIn, fnOut>>

\* variant: a rejected request is counted in requests_total
Reject_Counted ==
    /\ served < MaxServed
    /\ \E http \in HttpRequests :
         /\ IsSome(AnalyzeChecks(http, config))
         /\ rejected' = Append(rejected, Unwrap(AnalyzeChecks(http, config)))
    /\ served' = served + 1
    /\ metrics' = [metrics EXCEPT !.requests_total = @ + 1]
    /\ UNCHANGED <<config, task, eventSink, auditSink, fnIn, fnOut>>

\* a request that fails a check is answered with its error (lines 724-768)
Reject ==
    /\ served < MaxServed
    /\ \E http \in HttpRequests :
         /\ IsSome(AnalyzeChecks(http, config))
         /\ rejected' = Append(rejected, Unwrap(AnalyzeChecks(http, config)))
    /\ served' = served + 1
    /\ UNCHANGED <<config, task, metrics, eventSink, auditSink, fnIn, fnOut>>

\* a request that passes the checks starts its evaluation (line 770)
Accept(r) ==
    /\ task[r].pc \in {"idle", "done"}
    /\ served < MaxServed
    /\ \E http \in HttpRequests :
         /\ ~IsSome(AnalyzeChecks(http, config))
         /\ task' = [task EXCEPT ![r] =
                [IdleTask EXCEPT !.pc = "ctx",
                                 !.req = Some(JsonExtract(http, config).payload),
                                 !.corr = IF IsSome(http.correlationId)
                                          THEN Unwrap(http.correlationId) ELSE "",
                                 !.start = 0]]
    /\ served' = served + 1
    /\ UNCHANGED <<config, metrics, eventSink, auditSink, rejected,
                   fnIn, fnOut>>

\* variant: the precomputed texts are shared: a task takes those of another
\* task that has built them
BuildContext_SharedPre(r) ==
    /\ task[r].pc = "ctx"
    /\ LET q == Unwrap(task[r].req)
           others == {o \in DOMAIN task \ {r} : IsSome(task[o].pre)}
       IN task' = [task EXCEPT
                ![r].pre = IF others = {}
                           THEN Some(from_request_message(q.userMessage,
                                         q.chatHistory, q.inputValues))
                           ELSE task[CHOOSE o \in others : TRUE].pre,
                ![r].deadline = task[r].now,
                ![r].idx = 1,
                ![r].pc = "loop"]
    /\ UNCHANGED <<config, served, metrics, eventSink, auditSink,
                   rejected, fnIn, fnOut>>

\* EvalContext::from_request (lines 772-777)
BuildContext(r) ==
    /\ task[r].pc = "ctx"
    /\ LET q == Unwrap(task[r].req)
       IN task' = [task EXCEPT
                ![r].pre = Some(from_request_message(q.userMessage,
                                    q.chatHistory, q.inputValues)),
                ![r].deadline = task[r].now,
                ![r].idx = 1,
                ![r].pc = "loop"]
    /\ UNCHANGED <<config, served, metrics, eventSink, auditSink,
                   rejected, fnIn, fnOut>>

\* the for loop has run out of plugins: the default allow verdict
LoopEnd(r) ==
    /\ task[r].pc = "loop"
    /\ task[r].idx > Len(config.pipeline)
    /\ task' = [task EXCEPT ![r].raw = Some(AllowResponse), ![r].pc = "post"]
    /\ UNCHANGED <<config, served, metrics, eventSink, auditSink,
                   rejected, fnIn, fnOut>>

\* deadline.exceeded() at the top of an iteration: break
DeadlineBreak(r) ==
    /\ task[r].pc = "loop"
    /\ task[r].idx <= Len(config.pipeline)
    /\ exceeded(task[r].deadline, config.budgetMs, task[r].now)
    /\ task' = [task EXCEPT ![r].raw = Some(AllowResponse), ![r].pc = "post",
                            ![r].checked = Append(@, [idx |-> task[r].idx,
                                                      exceeded |-> TRUE])]
    /\ UNCHANGED <<config, served, metrics, eventSink, auditSink,
                   rejected, fnIn, fnOut>>

\* variant: the first detector is invoked without looking at the deadline
Invoke_FirstUnchecked(r) ==
    /\ task[r].pc = "loop"
    /\ task[r].idx <= Len(config.pipeline)
    /\ task[r].idx = 1
         \/ ~exceeded(task[r].deadline, config.budgetMs, task[r].now)
    /\ task' = [task EXCEPT ![r].pstart = task[r].now, ![r].pc = "eval",
                            ![r].invoked = Append(@, task[r].idx),
                            ![r].checked = Append(@,
                                [idx |-> task[r].idx,
                                 exceeded |-> exceeded(task[r].deadline,
                                                  config.budgetMs, task[r].now)])]
    /\ UNCHANGED <<config, served, metrics, eventSink, auditSink,
                   rejected, fnIn, fnOut>>

\* run_plugin: the start instant is taken and the plugin's eval is awaited
Invoke(r) ==
    /\ task[r].pc = "loop"
    /\ task[r].idx <= Len(config.pipeline)
    /\ ~exceeded(task[r].deadline, config.budgetMs, task[r].now)
    /\ task' = [task EXCEPT ![r].pstart = task[r].now, ![r].pc = "eval",
                            ![r].invoked = Append(@, task[r].idx),
                            ![r].checked = Append(@, [idx |-> task[r].idx,
                                                      exceeded |-> FALSE])]
    /\ UNCHANGED <<config, served, metrics, eventSink, auditSink,
                   rejected, fnIn, fnOut>>

\* the verdict the loop body derives from a plugin's result (lines 151-160)
BlockVerdict(plugin, result) ==
    IF IsSome(result) /\ Unwrap(result).blockAction
    THEN Some([Unwrap(result) EXCEPT
                  !.blockedBy = IF IsSome(@) THEN @ ELSE Some(plugin.name)])
    ELSE None

\* variant: a blocking result does not end the loop
PluginReturn_NoShortCircuit(r) ==
    /\ task[r].pc = "eval"
    /\ LET t == task[r]
           plugin == config.pipeline[t.idx]
           pre == Unwrap(t.pre)
       IN /\ PluginTerminates(plugin, pre, config)
          /\ \E remote \in RemotesOf(plugin) :
               LET result == PluginEval(plugin, Unwrap(t.req), pre, config, remote)
                   elapsed_ms == as_millis(t.now - t.pstart)
               IN task' = [task EXCEPT
                      ![r].timings = Append(@, <<plugin.name, elapsed_ms>>),
                      ![r].runs = Append(@, [idx |-> t.idx, response |-> result]),
                      ![r].idx = @ + 1,
                      ![r].pc = "loop"]
    /\ UNCHANGED <<config, served, metrics, eventSink, auditSink,
                   rejected, fnIn, fnOut>>

\* variant: the timing is pushed after the block check, so the blocking
\* detector's own entry is missing
PluginReturn_PushAfterBlock(r) ==
    /\ task[r].pc = "eval"
    /\ LET t == task[r]
           plugin == config.pipeline[t.idx]
           pre == Unwrap(t.pre)
       IN /\ PluginTerminates(plugin, pre, config)
          /\ \E remote \in RemotesOf(plugin) :
               LET result == PluginEval(plugin, Unwrap(t.req), pre, config, remote)
                   elapsed_ms == as_millis(t.now - t.pstart)
                   verdict == BlockVerdict(plugin, result)
               IN task' = [task EXCEPT
                      ![r].timings = IF IsSome(verdict) THEN @
                                     ELSE Append(@, <<plugin.name, elapsed_ms>>),
                      ![r].runs = Append(@, [idx |-> t.idx, response |-> result]),
                      ![r].raw = verdict,
                      ![r].idx = IF IsSome(verdict) THEN @ ELSE @ + 1,
                      ![r].pc = IF IsSome(verdict) THEN "post" ELSE "loop"]
    /\ UNCHANGED <<config, served, metrics, eventSink, auditSink,
                   rejected, fnIn, fnOut>>

\* variant: the deadline is looked at again when the detector returns, and
\* a result that arrives after the budget is dropped
PluginReturn_DropLate(r) ==
    /\ task[r].pc = "eval"
    /\ LET t == task[r]
           plugin == config.pipeline[t.idx]
           pre == Unwrap(t.pre)
           late == exceeded(t.deadline, config.budgetMs, t.now)
       IN /\ PluginTerminates(plugin, pre, config)
          /\ \E remote \in RemotesOf(plugin) :
               LET result == PluginEval(plugin, Unwrap(t.req), pre, config, remote)
                   elapsed_ms == as_millis(t.now - t.pstart)
                   verdict == IF late THEN Some(AllowResponse)
                              ELSE BlockVerdict(plugin, result)
               IN task' = [task EXCEPT
                      ![r].timings = IF late THEN @
                                     ELSE Append(@, <<plugin.name, elapsed_ms>>),
                      ![r].runs = Append(@, [idx |-> t.idx, response |-> result]),
                      ![r].raw = verdict,
                      ![r].idx = IF IsSome(verdict) THEN @ ELSE @ + 1,
                      ![r].pc = IF IsSome(verdict) THEN "post" ELSE "loop"]
    /\ UNCHANGED <<config, served, metrics, eventSink, auditSink,
                   rejected, fnIn, fnOut>>

\* eval returns: the timing is pushed; a block returns, otherwise the loop
\* goes on with the next plugin
PluginReturn(r) ==
    /\ task[r].pc = "eval"
    /\ LET t == task[r]
           plugin == config.pipeline[t.idx]
           pre == Unwrap(t.pre)
       IN /\ PluginTerminates(plugin, pre, config)
          /\ \E remote \in RemotesOf(plugin) :
               LET result == PluginEval(plugin, Unwrap(t.req), pre, config, remote)
                   elapsed_ms == as_millis(t.now - t.pstart)
                   verdict == BlockVerdict(plugin, result)
               IN task' = [task EXCEPT
                      ![r].timings = Append(@, <<plugin.name, elapsed_ms>>),
                      ![r].runs = Append(@, [idx |-> t.idx, response |-> result]),
                      ![r].raw = verdict,
                      ![r].idx = IF IsSome(verdict) THEN @ ELSE @ + 1,
                      ![r].pc = IF IsSome(verdict) THEN "post" ELSE "loop"]
    /\ UNCHANGED <<config, served, metrics, eventSink, auditSink,
                   rejected, fnIn, fnOut>>

\* variant: no audit-only override
OutwardResponse_NoOverride(audit_only, would_be_response) == would_be_response

\* variant: the override clears the flag and keeps the block's fields
OutwardResponse_FlagOnly(audit_only, would_be_response) ==
    IF audit_only /\ would_be_response.blockAction
    THEN [would_be_response EXCEPT !.blockAction = FALSE]
    ELSE would_be_response

\* the audit-only override and the latency reading (lines 783-794)
OutwardResponse(audit_only, would_be_response) ==
    IF audit_only /\ would_be_response.blockAction
    THEN AllowResponse ELSE would_be_response

Override(r) ==
    /\ task[r].pc = "post"
    /\ task' = [task EXCEPT
           ![r].response = Some(OutwardResponse(config.auditOnly,
                                                Unwrap(task[r].raw))),
           ![r].latency = as_millis(task[r].now - task[r].start),
           ![r].pc = "hist_sum"]
    /\ UNCHANGED <<config, served, metrics, eventSink, auditSink,
                   rejected, fnIn, fnOut>>

\* lines 796-805: three separate relaxed atomic updates
HistSum(r) ==
    /\ task[r].pc = "hist_sum"
    /\ metrics' = [metrics EXCEPT !.hist_sum_ms = @ + task[r].latency]
    /\ task' = [task EXCEPT ![r].pc = "hist_count"]
    /\ UNCHANGED <<config, served, eventSink, auditSink, rejected,
                   fnIn, fnOut>>

HistCount(r) ==
    /\ task[r].pc = "hist_count"
    /\ metrics' = [metrics EXCEPT !.hist_count = @ + 1]
    /\ task' = [task EXCEPT ![r].pc = "hist_bucket"]
    /\ UNCHANGED <<config, served, eventSink, auditSink, rejected,
                   fnIn, fnOut>>

HistBucket(r) ==
    /\ task[r].pc = "hist_bucket"
    /\ metrics' = [metrics EXCEPT !.hist_counts = Observe(@, task[r].latency)]
    /\ task' = [task EXCEPT ![r].pc = "emit_event"]
    /\ UNCHANGED <<config, served, eventSink, auditSink, rejected,
                   fnIn, fnOut>>

\* variant: audit-only alone decides, whatever the raw verdict
AuditSuppressed_AnyVerdict(r) == config.auditOnly

AuditSuppressed(r) == config.auditOnly /\ Unwrap(task[r].raw).blockAction

\* the telemetry event payload (lines 813-824); ts is wall-clock time and is
\* left out; a None value is serialised as JSON null under its key
EventRecord(r) ==
    LET t == task[r]
        response == Unwrap(t.response)
    IN [schemaVersion |-> 1, correlationId |-> t.corr,
        blockAction |-> response.blockAction,
        reasonCode |-> response.reasonCode,
        blockedBy |-> response.blockedBy,
        latencyMs |-> t.latency,
        diagnostics |-> response.diagnostics,
        auditSuppressed |-> IF AuditSuppressed(r) THEN Some(TRUE) ELSE None,
        pluginTimings |-> t.timings]

\* the audit record (lines 838-846)
AuditRecord(r) ==
    [schemaVersion |-> 1, correlationId |-> task[r].corr, auditOnly |-> TRUE,
     wouldBlock |-> TRUE, wouldResponse |-> Unwrap(task[r].raw),
     request |-> Unwrap(task[r].req)]

\* TelemetrySink::emit_event -> write_line on telemetry_writer; the write
\* either succeeds or fails
EmitEvent(r) ==
    /\ task[r].pc = "emit_event"
    /\ \E ok \in BOOLEAN :
         /\ IF config.telemetryWriter
            THEN IF ok
                 THEN /\ eventSink' = Append(eventSink, EventRecord(r))
                      /\ metrics' = [metrics EXCEPT !.lines_total = @ + 1]
                 ELSE /\ metrics' = [metrics EXCEPT !.write_errors_total = @ + 1]
                      /\ UNCHANGED eventSink
            ELSE ok /\ UNCHANGED <<eventSink, metrics>>
         /\ task' = [task EXCEPT
                ![r].events = Append(@, EventRecord(r)),
                ![r].writes = IF config.telemetryWriter
                              THEN Append(@, [kind |-> "event", ok |-> ok]) ELSE @,
                ![r].pc = IF AuditSuppressed(r) THEN "emit_audit" ELSE "count_req"]
    /\ UNCHANGED <<config, served, auditSink, rejected, fnIn, fnOut>>

\* TelemetrySink::emit_audit -> write_line on audit_writer, or on
\* telemetry_writer when there is no audit writer
EmitAudit(r) ==
    /\ task[r].pc = "emit_audit"
    /\ \E ok \in BOOLEAN :
         /\ CASE config.auditWriter ->
                   IF ok
                   THEN /\ auditSink' = Append(auditSink, AuditRecord(r))
                        /\ metrics' = [metrics EXCEPT !.lines_total = @ + 1]
                        /\ UNCHANGED eventSink
                   ELSE /\ metrics' = [metrics EXCEPT !.write_errors_total = @ + 1]
                        /\ UNCHANGED <<eventSink, auditSink>>
              [] ~config.auditWriter /\ config.telemetryWriter ->
                   IF ok
                   THEN /\ eventSink' = Append(eventSink, AuditRecord(r))
                        /\ metrics' = [metrics EXCEPT !.lines_total = @ + 1]
                        /\ UNCHANGED auditSink
                   ELSE /\ metrics' = [metrics EXCEPT !.write_errors_total = @ + 1]
                        /\ UNCHANGED <<eventSink, auditSink>>
              [] OTHER -> ok /\ UNCHANGED <<eventSink, auditSink, metrics>>
         /\ task' = [task EXCEPT
                ![r].audits = Append(@, AuditRecord(r)),
                ![r].writes = IF config.auditWriter \/ config.telemetryWriter
                              THEN Append(@, [kind |-> "audit", ok |-> ok]) ELSE @,
                ![r].pc = "count_req"]
    /\ UNCHANGED <<config, served, rejected, fnIn, fnOut>>

\* variant: requests_total counts only the requests that are not blocked
CountRequest_AllowedOnly(r) ==
    /\ task[r].pc = "count_req"
    /\ metrics' = [metrics EXCEPT !.requests_total =
           IF Unwrap(task[r].raw).blockAction THEN @ ELSE @ + 1]
    /\ task' = [task EXCEPT ![r].pc =
           IF Unwrap(task[r].raw).blockAction THEN "count_block"
           ELSE "plugin_metrics"]
    /\ UNCHANGED <<config, served, eventSink, auditSink, rejected,
                   fnIn, fnOut>>

\* lines 858-866
CountRequest(r) ==
    /\ task[r].pc = "count_req"
    /\ metrics' = [metrics EXCEPT !.requests_total = @ + 1]
    /\ task' = [task EXCEPT ![r].pc =
           IF Unwrap(task[r].raw).blockAction THEN "count_block"
           ELSE "plugin_metrics"]
    /\ UNCHANGED <<config, served, eventSink, auditSink, rejected,
                   fnIn, fnOut>>

\* variant: only a block that reaches the client is counted
CountBlock_OutwardOnly(r) ==
    /\ task[r].pc = "count_block"
    /\ metrics' = [metrics EXCEPT !.blocks_total =
           IF Unwrap(task[r].response).blockAction THEN @ + 1 ELSE @]
    /\ task' = [task EXCEPT ![r].pc =
           IF AuditSuppressed(r) THEN "count_suppressed" ELSE "plugin_metrics"]
    /\ UNCHANGED <<config, served, eventSink, auditSink, rejected,
                   fnIn, fnOut>>

CountBlock(r) ==
    /\ task[r].pc = "count_block"
    /\ metrics' = [metrics EXCEPT !.blocks_total = @ + 1]
    /\ task' = [task EXCEPT ![r].pc =
           IF AuditSuppressed(r) THEN "count_suppressed" ELSE "plugin_metrics"]
    /\ UNCHANGED <<config, served, eventSink, auditSink, rejected,
                   fnIn, fnOut>>

CountSuppressed(r) ==
    /\ task[r].pc = "count_suppressed"
    /\ metrics' = [metrics EXCEPT !.audit_suppressed_total = @ + 1]
    /\ task' = [task EXCEPT ![r].pc = "plugin_metrics"]
    /\ UNCHANGED <<config, served, eventSink, auditSink, rejected,
                   fnIn, fnOut>>

\* the metrics of one plugin after one timing entry (lines 871-882)
TimingUpdate(pm, ms) ==
    [pm EXCEPT !.eval_sum_ms = @ + ms, !.eval_count = @ + 1,
               !.hist_sum_ms = @ + ms, !.hist_count = @ + 1,
               !.hist_counts = Observe(@, ms)]

\* one iteration of the loop over plugin_timings (lines 868-885)
PluginTimingMetrics(r) ==
    /\ task[r].pc = "plugin_metrics"
    /\ task[r].k < Len(task[r].timings)
    /\ LET entry == task[r].timings[task[r].k + 1]
           i == MetricIndex(config.order, entry[1])
       IN metrics' = IF i = 0 THEN metrics
                     ELSE [metrics EXCEPT !.plugin[i] = TimingUpdate(@, entry[2])]
    /\ task' = [task EXCEPT ![r].k = @ + 1]
    /\ UNCHANGED <<config, served, eventSink, auditSink, rejected,
                   fnIn, fnOut>>

\* the per-plugin block counter (lines 887-893) and the 200 response
Respond(r) ==
    /\ task[r].pc = "plugin_metrics"
    /\ task[r].k = Len(task[r].timings)
    /\ LET by == Unwrap(task[r].raw).blockedBy
           i == IF IsSome(by) THEN MetricIndex(config.order, Unwrap(by)) ELSE 0
       IN metrics' = IF i = 0 THEN metrics
                     ELSE [metrics EXCEPT !.plugin[i].block_count = @ + 1]
    /\ task' = [task EXCEPT ![r].pc = "done", ![r].status = 200]
    /\ UNCHANGED <<config, served, eventSink, auditSink, rejected,
                   fnIn, fnOut>>

\* the steps the handler task takes by itself once its request is accepted
HandlerStep(r) ==
    \/ BuildContext(r) \/ LoopEnd(r) \/ DeadlineBreak(r)
    \/ Invoke(r) \/ PluginReturn(r) \/ Override(r) \/ HistSum(r)
    \/ HistCount(r) \/ HistBucket(r) \/ EmitEvent(r) \/ EmitAudit(r)
    \/ CountRequest(r) \/ CountBlock(r) \/ CountSuppressed(r)
    \/ PluginTimingMetrics(r) \/ Respond(r)

Next == Reject \/ \E r \in Tasks : Tick(r) \/ Accept(r) \/ HandlerStep(r)

Spec == Init /\ [][Next]_vars

TypeOK ==
    /\ \A r \in Tasks : task[r].now \in 0..MaxTime
    /\ served \in 0..MaxServed
    /\ \A r \in Tasks : task[r].pc \in
         {"idle", "ctx", "loop", "eval", "post", "hist_sum", "hist_count",
          "hist_bucket", "emit_event", "emit_audit", "count_req", "count_block",
          "count_suppressed", "plugin_metrics", "done"}

----------------------------------------------------------------------------
(* Properties of the pipeline and of the handler *)

Blocks(result) == IsSome(result) /\ Unwrap(result).blockAction

\* the indices of a task's completed detector runs whose result blocks
BlockingRuns(t) == {i \in 1..Len(t.runs) : Blocks(t.runs[i].response)}

\* C1: detectors are invoked strictly in sequence order (the i-th invocation
\* is that of the i-th registered detector), a detector whose result blocks is
\* the last one invoked, and the verdict returned is that of the lowest-index
\* blocking detector, or the default allow when none blocked
C1_OrderAndShortCircuit ==
    \A r \in Tasks :
      LET t == task[r]
      IN /\ \A i \in 1..Len(t.invoked) : t.invoked[i] = i
         /\ \A i \in 1..Len(t.runs) : t.runs[i].idx = i
         /\ Len(t.invoked) <= Len(config.pipeline)
         /\ \A i \in BlockingRuns(t) :
              i = Len(t.runs) /\ Len(t.invoked) = i
         /\ IsSome(t.raw) =>
              IF BlockingRuns(t) = {}
              THEN Unwrap(t.raw) = AllowResponse
              ELSE LET first == CHOOSE i \in BlockingRuns(t) :
                                   \A j \in BlockingRuns(t) : i <= j
                       result == Unwrap(t.runs[first].response)
                       verdict == Unwrap(t.raw)
                   IN /\ verdict.blockAction
                      /\ verdict.reasonCode = result.reasonCode
                      /\ verdict.reason = result.reason
                      /\ verdict.diagnostics = result.diagnostics
                      /\ IsSome(result.blockedBy) =>
                           verdict.blockedBy = result.blockedBy

\* a request blocked by the second of three registered detectors: the third
\* one was never invoked
C1_Witness ==
    \E r \in Tasks :
      /\ task[r].pc = "done"
      /\ Len(config.pipeline) = 3
      /\ Len(task[r].invoked) = 2
      /\ Unwrap(task[r].raw).blockAction

\* C2: with auditOnly, every 200 response is the default allow: blockAction
\* false and no reasonCode, reason, blockedBy or diagnostics, whatever the raw
\* verdict is
C2_AuditOnlyAllows ==
    config.auditOnly =>
      \A r \in Tasks :
        IsSome(task[r].response) =>
          LET response == Unwrap(task[r].response)
          IN /\ ~response.blockAction
             /\ response.reasonCode = None
             /\ response.reason = None
             /\ response.blockedBy = None
             /\ response.diagnostics = None

\* the second request of a sequence is answered under auditOnly although its
\* raw verdict is a block
C2_Witness ==
    /\ config.auditOnly
    /\ served = 2
    /\ \E r \in Tasks :
         /\ task[r].pc = "done"
         /\ task[r].status = 200
         /\ Unwrap(task[r].raw).blockAction

\* the handler is past its telemetry emission
Emitted(t) ==
    t.pc \in {"count_req", "count_block", "count_suppressed", "plugin_metrics",
              "done"}

\* C3: with auditOnly, a request whose raw verdict is a block has handed to
\* the telemetry sink exactly one audit record (auditOnly, wouldBlock,
\* wouldResponse equal to the raw verdict), written at most once, and exactly
\* one event record, with auditSuppressed=true; a request whose raw verdict
\* is allow has produced no audit record
C3_AuditRecords ==
    config.auditOnly =>
      \A r \in Tasks :
        LET t == task[r]
            auditWrites == {i \in 1..Len(t.writes) : t.writes[i].kind = "audit"}
        IN /\ Len(t.audits) <= 1 /\ Len(t.events) <= 1
           /\ Cardinality(auditWrites) <= Len(t.audits)
           /\ Emitted(t) =>
                IF Unwrap(t.raw).blockAction
                THEN /\ Len(t.audits) = 1
                     /\ t.audits[1].auditOnly
                     /\ t.audits[1].wouldBlock
                     /\ t.audits[1].wouldResponse = Unwrap(t.raw)
                     /\ Len(t.events) = 1
                     /\ t.events[1].auditSuppressed = Some(TRUE)
                ELSE /\ t.audits = <<>>
                     /\ Len(t.events) = 1
                     /\ t.events[1].auditSuppressed # Some(TRUE)

\* an audit-only request with a raw block has been answered and its audit
\* record is in the audit stream
C3_Witness ==
    /\ config.auditOnly
    /\ \E r \in Tasks :
         /\ task[r].pc = "done"
         /\ Unwrap(task[r].raw).blockAction
         /\ Len(auditSink) > 0
         /\ auditSink[Len(auditSink)] = task[r].audits[1]

\* a block carries blockedBy and reasonCode; an allow carries nothing
VerdictInvariant(v) ==
    IF v.blockAction
    THEN IsSome(v.blockedBy) /\ IsSome(v.reasonCode)
    ELSE /\ v.reasonCode = None
         /\ v.reason = None
         /\ v.blockedBy = None
         /\ v.diagnostics = None

\* C4: every verdict returned by evaluate_with_timings and every 200 body of
\* the handler satisfies the verdict invariant
C4_VerdictInvariant ==
    \A r \in Tasks :
      /\ IsSome(task[r].raw) => VerdictInvariant(Unwrap(task[r].raw))
      /\ IsSome(task[r].response) => VerdictInvariant(Unwrap(task[r].response))

\* a block verdict has been overridden by audit-only and answered
C4_Witness ==
    \E r \in Tasks :
      /\ task[r].pc = "done"
      /\ Unwrap(task[r].raw).blockAction
      /\ ~Unwrap(task[r].response).blockAction

\* C5: a pipeline verdict with blockAction=true has blockedBy set, equal to
\* the detector name of the last entry of the returned timings
C5_BlockedByLastTiming ==
    \A r \in Tasks :
      (IsSome(task[r].raw) /\ Unwrap(task[r].raw).blockAction) =>
        /\ IsSome(Unwrap(task[r].raw).blockedBy)
        /\ Len(task[r].timings) > 0
        /\ Unwrap(Unwrap(task[r].raw).blockedBy)
             = task[r].timings[Len(task[r].timings)][1]

\* an external detector blocks after an earlier detector allowed
C5_Witness ==
    \E r \in Tasks :
      /\ IsSome(task[r].raw)
      /\ Unwrap(task[r].raw).blockAction
      /\ Len(task[r].timings) = 2
      /\ Unwrap(task[r].raw).blockedBy = Some("external_a")


\* a name of the order list that PluginPipeline::new turns into a detector
IsRegistered(name, cfg) ==
    \/ name \in {"exfil", "secrets", "pii", "email_bcc", "domain_block"}
    \/ name = "policy_pack" /\ cfg.policies # <<>>
    \/ /\ starts_with(name, "external_")
       /\ \E i \in 1..Len(cfg.externalHttp) : cfg.externalHttp[i].name = name

RegisteredNames(order, cfg) ==
    SelectSeq(order, LAMBDA name : IsRegistered(name, cfg))

\* C6 (as amended): the timings are no longer than the configured detector
\* order, and their names, in order, are the first names of the registered
\* detectors: the configured order without the names that are unknown, that
\* have no external definition, or that are policy_pack with no policy
C6_TimingsPrefixOfRegistered ==
    \A r \in Tasks :
      LET t == task[r]
          registered == RegisteredNames(config.order, config)
      IN /\ Len(t.timings) <= Len(config.order)
         /\ Len(t.timings) <= Len(registered)
         /\ \A i \in 1..Len(t.timings) : t.timings[i][1] = registered[i]

\* C6 (as stated): the names in the timings are the first names of the
\* configured detector order
C6_TimingsPrefixOfConfigured ==
    \A r \in Tasks :
      /\ Len(task[r].timings) <= Len(config.order)
      /\ \A i \in 1..Len(task[r].timings) :
           i <= Len(config.order) /\ task[r].timings[i][1] = config.order[i]

\* two detectors have run under an order that names detectors which are
\* not registered
C6_Witness ==
    \E r \in Tasks :
      /\ Len(task[r].timings) = 2
      /\ Len(config.pipeline) < Len(config.order)

\* C7: every detector invocation, the first included, follows a deadline
\* check that found the budget not exhausted; a check that finds it exhausted
\* is the last step of the loop: no detector is invoked after it and the
\* result is the default allow with the timings of the detectors run so far
C7_DeadlineBeforeEachDetector ==
    \A r \in Tasks :
      LET t == task[r]
      IN /\ Len(t.invoked) <= Len(t.checked)
         /\ \A i \in 1..Len(t.invoked) :
              t.checked[i].idx = t.invoked[i] /\ ~t.checked[i].exceeded
         /\ \A i \in 1..Len(t.checked) :
              t.checked[i].exceeded =>
                /\ i = Len(t.checked)
                /\ Len(t.invoked) = i - 1
                /\ t.pc \notin {"loop", "eval"}
                /\ t.raw = Some(AllowResponse)
                /\ Len(t.runs) = i - 1
                /\ Len(t.timings) = i - 1
                /\ \A j \in 1..(i - 1) :
                     t.timings[j][1] = config.pipeline[j].name

\* the deadline expired after one detector had run: the request is answered
\* with the default allow and that detector's timing
C7_Witness ==
    \E r \in Tasks :
      /\ task[r].pc = "done"
      /\ Len(task[r].checked) = 2
      /\ task[r].checked[2].exceeded
      /\ Len(task[r].timings) = 1


----------------------------------------------------------------------------
(* Progress of an accepted request *)

\* a blocklist that holds the empty string, as a configuration file can
EmptyDomainConfig ==
    [BaseConfig EXCEPT !.order = <<"exfil", "domain_block">>,
                       !.domainBlocklist = <<"">>, !.auditOnly = TRUE,
                       !.auditWriter = TRUE, !.budgetMs = 1]

LiveConfigs ==
    { EmptyDomainConfig,
      [BaseConfig EXCEPT !.order = <<"secrets", "external_a">>,
                         !.externalHttp = <<ExternalA>>,
                         !.telemetryWriter = FALSE] }

LiveInit ==
    /\ config \in {AppState(c) : c \in LiveConfigs}
    /\ task = [r \in Tasks |-> IdleTask]
    /\ served = 0
    /\ metrics = ZeroMetrics(config.order)
    /\ eventSink = <<>>
    /\ auditSink = <<>>
    /\ rejected = <<>>
    /\ fnIn = None
    /\ fnOut = None

\* the runtime keeps polling a handler task that can take a step
LiveSpec ==
    LiveInit /\ [][Next]_vars /\ \A r \in Tasks : WF_vars(HandlerStep(r))

\* C8: a request that has passed the size, api-version, authorization,
\* parsing and required-field checks is eventually answered 200
C8_EventuallyResponds ==
    \A r \in Tasks :
      (task[r].pc = "ctx") ~> (task[r].pc = "done" /\ task[r].status = 200)


----------------------------------------------------------------------------
(* The request checks of the two POST handlers, over a wide set of requests *)

AuthHeaders ==
    { None, Some("Bearer tok1"), Some("bearer tok1"), Some("BEARER  tok1 "),
      Some("Bearer nope"), Some("Bearer "), Some("Bearer    "), Some("Bearer"),
      Some("Bearertok1"), Some("Bearer\ttok1"), Some("Bearer-tok1"),
      Some("Basic tok1"), Some("tok1"), Some("") }

FnBodies ==
    { [kind |-> "json", payload |-> PBenign],
      [kind |-> "json", payload |-> PNoMessage],
      [kind |-> "json", payload |-> PBlankTool],
      [kind |-> "json", payload |-> PBothMissing],
      [kind |-> "syntax", payload |-> PBenign],
      [kind |-> "data", payload |-> PBenign] }

FnHttpRequests ==
    { HttpRequest(cl, len, api, auth, ctype, b.kind, b.payload) :
        cl \in {None, Some("100"), Some("256"), Some("257"), Some("2000"),
                Some("abc")},
        len \in {100, 256, 257, 2000},
        api \in {None, Some(API_VERSION), Some("2024-01-01"), Some("")},
        auth \in AuthHeaders,
        ctype \in BOOLEAN,
        b \in FnBodies }

FnConfigs ==
    { [BaseConfig EXCEPT !.allowedTokens = tokens, !.maxRequestBytes = limit] :
        tokens \in {None, Some({"tok1"})}, limit \in {None, Some(256)} }

FnInit ==
    /\ config \in {AppState(c) : c \in FnConfigs}
    /\ task = [r \in Tasks |-> IdleTask]
    /\ served = 0
    /\ metrics = ZeroMetrics(config.order)
    /\ eventSink = <<>>
    /\ auditSink = <<>>
    /\ rejected = <<>>
    /\ fnIn \in {Some(http) : http \in FnHttpRequests}
    /\ fnOut = None

\* POST /analyze-tool-execution, up to the start of the evaluation
CallAnalyze ==
    /\ fnOut = None
    /\ fnOut' = Some([endpoint |-> "analyze",
                      response |-> AnalyzeChecks(Unwrap(fnIn), config)])
    /\ UNCHANGED <<config, task, served, metrics, eventSink, auditSink,
                   rejected, fnIn>>

\* POST /validate
CallValidate ==
    /\ fnOut = None
    /\ fnOut' = Some([endpoint |-> "validate",
                      response |-> ValidateResponse(Unwrap(fnIn), config)])
    /\ UNCHANGED <<config, task, served, metrics, eventSink, auditSink,
                   rejected, fnIn>>

FnNext == CallAnalyze \/ CallValidate

FnSpec == FnInit /\ [][FnNext]_vars

FailsSize(http, cfg) == IsSome(SizeGuard(http, cfg))
FailsApi(http) == IsSome(ensure_api_version(http))
FailsAuth(http, cfg) == IsSome(ensure_authorized(http, cfg.allowedTokens))
FailsParse(http, cfg) == ~JsonExtract(http, cfg).ok
FailsFields(http, cfg) ==
    /\ JsonExtract(http, cfg).ok
    /\ missing_required_fields(JsonExtract(http, cfg).payload) # <<>>

Answered(out, status, code) ==
    IsSome(out) /\ Unwrap(out).httpStatus = status
                /\ Unwrap(out).errorCode = code

\* C9: the analyze handler answers with the error of the earliest failing
\* check in the order size guard, api-version, authorization, body parse,
\* required fields, and lets the request through only when none fails
C9_EarliestFailingCheck ==
    (IsSome(fnOut) /\ Unwrap(fnOut).endpoint = "analyze") =>
      LET http == Unwrap(fnIn)
          out == Unwrap(fnOut).response
          size == FailsSize(http, config)
          api == FailsApi(http)
          auth == FailsAuth(http, config)
          parse == FailsParse(http, config)
          fields == FailsFields(http, config)
      IN /\ size => Answered(out, 413, Some(4001))
         /\ (~size /\ api) => Answered(out, 400, Some(4000))
         /\ (~size /\ ~api /\ auth) => Answered(out, 401, Some(2001))
         /\ (~size /\ ~api /\ ~auth /\ parse) =>
              /\ IsSome(out)
              /\ Unwrap(out).httpStatus \in {400, 413, 415, 422}
              /\ Unwrap(out).errorCode \in {None, Some(4001)}
              /\ Unwrap(out).errorCode = Some(4001) <=> Unwrap(out).httpStatus = 413
         /\ (~size /\ ~api /\ ~auth /\ ~parse /\ fields) =>
              Answered(out, 400, Some(4002))
         /\ (~size /\ ~api /\ ~auth /\ ~parse /\ ~fields) <=> out = None

\* an oversized request with no api-version, no token and an unparseable
\* body is answered 413/4001
C9_Witness ==
    /\ IsSome(fnOut)
    /\ Unwrap(fnOut).endpoint = "analyze"
    /\ FailsSize(Unwrap(fnIn), config)
    /\ FailsApi(Unwrap(fnIn))
    /\ FailsAuth(Unwrap(fnIn), config)
    /\ FailsParse(Unwrap(fnIn), config)
    /\ Answered(Unwrap(fnOut).response, 413, Some(4001))

\* the Authorization header the specification accepts: the scheme "bearer"
\* in any case, a space, and a token that is non-empty after trimming and
\* belongs to the allowed set when one is configured
BearerSpaceToken(header, allowed) ==
    /\ IsSome(header)
    /\ LET raw == Unwrap(header)
       IN /\ Len(raw) >= 7
          /\ eq_ignore_ascii_case(SubSeq(raw, 1, 6), "bearer")
          /\ CharAt(raw, 7) = " "
          /\ trim(SubSeq(raw, 8, Len(raw))) # ""
          /\ IsSome(allowed) => trim(SubSeq(raw, 8, Len(raw))) \in Unwrap(allowed)

\* C10: a request that reaches the authorization check of /validate or of
\* /analyze-tool-execution passes it iff its Authorization header is
\* "bearer", a space and a valid token; any other header is answered 401/2001
C10_AuthorizedIffBearerSpaceToken ==
    IsSome(fnOut) =>
      LET http == Unwrap(fnIn)
          out == Unwrap(fnOut).response
          reached == /\ ~FailsApi(http)
                     /\ Unwrap(fnOut).endpoint = "analyze" =>
                          ~FailsSize(http, config)
      IN reached =>
           (Answered(out, 401, Some(2001))
              <=> ~BearerSpaceToken(http.authorization, config.allowedTokens))

----------------------------------------------------------------------------
(* The api-version, required-field and size checks *)

AbsentOrBlank(o) ==
    o = None \/ \A i \in 1..Len(Unwrap(o)) : CharAt(Unwrap(o), i) \in Whitespace

\* the message of the 4002 error for the given missing paths
MissingMessage(noMessage, noTool) ==
    "Missing or empty required field(s): "
      \o (IF noMessage THEN "plannerContext.userMessage" ELSE "")
      \o (IF noMessage /\ noTool THEN ", " ELSE "")
      \o (IF noTool THEN "toolDefinition.name" ELSE "")

\* C12: a request whose body was parsed (it passed the size guard, the
\* api-version and authorization checks and the JSON extraction) is answered
\* 400 with errorCode 4002 iff plannerContext.userMessage or
\* toolDefinition.name is absent or blank; the message then lists exactly
\* the missing paths, and the handler returns before the pipeline
C12_MissingFieldsRejected ==
    (IsSome(fnOut) /\ Unwrap(fnOut).endpoint = "analyze") =>
      LET http == Unwrap(fnIn)
          out == Unwrap(fnOut).response
          parsed == /\ ~FailsSize(http, config) /\ ~FailsApi(http)
                    /\ ~FailsAuth(http, config) /\ ~FailsParse(http, config)
          noMessage == AbsentOrBlank(http.body.payload.userMessage)
          noTool == AbsentOrBlank(http.body.payload.toolName)
      IN parsed =>
           /\ Answered(out, 400, Some(4002)) <=> (noMessage \/ noTool)
           /\ (noMessage \/ noTool) =>
                Unwrap(out).message = MissingMessage(noMessage, noTool)
           /\ ~(noMessage \/ noTool) => out = None

\* a parsed request with a blank userMessage and no tool name is answered
\* 4002 with both paths in the message
C12_Witness ==
    /\ IsSome(fnOut)
    /\ Unwrap(fnOut).endpoint = "analyze"
    /\ Unwrap(fnIn).body.payload = PBothMissing
    /\ Answered(Unwrap(fnOut).response, 400, Some(4002))
    /\ contains(Unwrap(Unwrap(fnOut).response).message,
                "plannerContext.userMessage, toolDefinition.name")

\* the Content-Length header states more than n bytes
ContentLengthOver(http, n) ==
    /\ IsSome(http.contentLength)
    /\ IsSome(ParseUsize(Unwrap(http.contentLength)))
    /\ Unwrap(ParseUsize(Unwrap(http.contentLength))) > n

----------------------------------------------------------------------------
(* The external HTTP detector, over a wide set of definitions and replies *)

ExtBlockFields ==
    {"block", "allow", "/", "/result/flagged", "/items", "/items/0", "/items/01",
     "result/flagged", "verdict", ""}

ExtDefinitions ==
    { [ExternalHttpDefinition("external_a") EXCEPT
          !.blockField = f, !.failOpen = open, !.nonEmptyPointerBlocks = ne,
          !.reasonCode = code, !.reason = reason] :
        f \in ExtBlockFields, open \in BOOLEAN, ne \in BOOLEAN,
        code \in {DefaultExternalReasonCode, 860},
        reason \in {None, Some("Denied by partner")} }

\* the JSON documents a remote service answers with
ExtJsonValues ==
    { JBool(TRUE), JBool(FALSE), JNull, JStr("block"), JNum(1),
      JArr(<<>>), JArr(<<JBool(TRUE)>>),
      JObj(<<>>),
      JObj(<<<<"block", JBool(TRUE)>>>>),
      JObj(<<<<"block", JBool(FALSE)>>>>),
      JObj(<<<<"block", JStr("true")>>>>),
      JObj(<<<<"allow", JBool(TRUE)>>>>),
      JObj(<<<<"allow", JBool(FALSE)>>>>),
      JObj(<<<<"allow", JNum(0)>>, <<"block", JBool(TRUE)>>>>),
      JObj(<<<<"result", JObj(<<<<"flagged", JBool(TRUE)>>>>)>>>>),
      JObj(<<<<"result", JObj(<<<<"flagged", JBool(FALSE)>>>>)>>>>),
      JObj(<<<<"result", JObj(<<<<"flagged", JArr(<<JNum(1)>>)>>>>)>>>>),
      JObj(<<<<"items", JArr(<<>>)>>>>),
      JObj(<<<<"items", JArr(<<JBool(FALSE), JBool(TRUE)>>)>>>>),
      JObj(<<<<"items", JArr(<<JObj(<<>>)>>)>>>>),
      JObj(<<<<"items", JObj(<<<<"0", JBool(TRUE)>>, <<"01", JBool(TRUE)>>>>)>>>>) }

\* what the call to the remote service ends in; timedOut tells the errors
\* that come from the client's timeout from the other transport errors
ExtRemotes ==
    { [kind |-> "network_error", timedOut |-> to] : to \in BOOLEAN }
    \cup { [kind |-> "read_error", status |-> 200, timedOut |-> to] :
             to \in BOOLEAN }
    \cup { [kind |-> "parse_error", status |-> st] : st \in {200, 500} }
    \cup { [kind |-> "json", status |-> st, json |-> j] :
             st \in {200, 500}, j \in ExtJsonValues }

ExtInit ==
    /\ config = AppState(BaseConfig)
    /\ task = [r \in Tasks |-> IdleTask]
    /\ served = 0
    /\ metrics = ZeroMetrics(config.order)
    /\ eventSink = <<>>
    /\ auditSink = <<>>
    /\ rejected = <<>>
    /\ fnIn \in {Some([def |-> d, remote |-> o]) :
                    d \in ExtDefinitions, o \in ExtRemotes}
    /\ fnOut = None

\* one iteration of the pipeline's loop on an external detector: the plugin
\* registered for the definition is evaluated and the loop derives its verdict
CallExternal ==
    /\ fnOut = None
    /\ LET def == Unwrap(fnIn).def
           plugin == RegisterPlugin(def.name,
                         [BaseConfig EXCEPT !.externalHttp = <<def>>])[1]
           result == PluginEval(plugin, PBenign, None, config, Unwrap(fnIn).remote)
       IN fnOut' = Some([plugin |-> plugin.name, result |-> result,
                         verdict |-> BlockVerdict(plugin, result)])
    /\ UNCHANGED <<config, task, served, metrics, eventSink, auditSink,
                   rejected, fnIn>>

ExtNext == CallExternal

ExtSpec == ExtInit /\ [][ExtNext]_vars

\* the call failed: network error, timeout, response read error, or a body
\* that is not JSON
ExtFailed(remote) == remote.kind \in {"network_error", "read_error", "parse_error"}

\* C14: when the call of an external HTTP detector fails (network error,
\* timeout, response read error, JSON parse error), a detector with
\* failOpen=true gives no verdict and the loop goes on, and a detector with
\* failOpen=false blocks with its configured reasonCode and with blockedBy
\* equal to its configured name
C14_FailOpenFailClosed ==
    (IsSome(fnOut) /\ ExtFailed(Unwrap(fnIn).remote)) =>
      LET def == Unwrap(fnIn).def
          out == Unwrap(fnOut)
      IN /\ def.failOpen => (out.result = None /\ out.verdict = None)
         /\ ~def.failOpen =>
              /\ IsSome(out.verdict)
              /\ Unwrap(out.verdict).blockAction
              /\ Unwrap(out.verdict).reasonCode = Some(def.reasonCode)
              /\ Unwrap(out.verdict).blockedBy = Some(def.name)

\* a fail-closed detector with reasonCode 860 whose reply timed out while
\* being read has blocked
C14_Witness ==
    /\ IsSome(fnOut)
    /\ Unwrap(fnIn).remote.kind = "read_error"
    /\ Unwrap(fnIn).remote.timedOut
    /\ ~Unwrap(fnIn).def.failOpen
    /\ Unwrap(fnIn).def.reasonCode = 860
    /\ IsSome(Unwrap(fnOut).verdict)

\* the block signal of a parsed reply, as specified
BlockSignal(def, val) ==
    LET f == def.blockField
        rootBool(k) ==
            IF val.t = "object" /\ IsSome(MapGet(val.v, k))
                 /\ Unwrap(MapGet(val.v, k)).t = "bool"
            THEN Some(Unwrap(MapGet(val.v, k)).v) ELSE None
        nonEmpty(x) == IF x.t \in {"array", "object"} THEN Some(x.v # <<>>)
                       ELSE None
    IN IF f = "block" THEN rootBool("block")
       ELSE IF f = "allow"
       THEN (IF IsSome(rootBool("allow")) THEN Some(~Unwrap(rootBool("allow")))
             ELSE None)
       ELSE IF f = "/"
       THEN (IF ~def.nonEmptyPointerBlocks THEN None
             ELSE IF val.t = "bool" THEN Some(val.v) ELSE nonEmpty(val))
       ELSE IF \E i \in 1..Len(f) : CharAt(f, i) = "/"
       THEN (IF ~IsSome(JsonPointer(val, f)) THEN None
             ELSE IF Unwrap(JsonPointer(val, f)).t = "bool"
             THEN Some(Unwrap(JsonPointer(val, f)).v)
             ELSE IF def.nonEmptyPointerBlocks
             THEN nonEmpty(Unwrap(JsonPointer(val, f)))
             ELSE None)
       ELSE None

\* C15: for a reply that parsed as JSON, the detector blocks iff the block
\* signal (root field "block"; negated root field "allow"; "/" with
\* nonEmptyPointerBlocks; a JSON pointer) is true; an absent or false signal
\* gives no verdict, also for a detector with failOpen=false
C15_BlockSignal ==
    (IsSome(fnOut) /\ Unwrap(fnIn).remote.kind = "json") =>
      LET def == Unwrap(fnIn).def
          out == Unwrap(fnOut)
          signal == BlockSignal(def, Unwrap(fnIn).remote.json)
      IN /\ signal = Some(TRUE) =>
              (IsSome(out.verdict) /\ Unwrap(out.verdict).blockAction)
         /\ signal # Some(TRUE) => (out.result = None /\ out.verdict = None)

\* a fail-closed detector reading "allow" has blocked on {"allow": false},
\* and would not have on an absent signal
C15_Witness ==
    /\ IsSome(fnOut)
    /\ Unwrap(fnIn).def.blockField = "allow"
    /\ ~Unwrap(fnIn).def.failOpen
    /\ Unwrap(fnIn).remote.kind = "json"
    /\ Unwrap(fnIn).remote.json = JObj(<<<<"allow", JBool(FALSE)>>>>)
    /\ IsSome(Unwrap(fnOut).verdict)

----------------------------------------------------------------------------
(* Concurrent requests and the telemetry writers, at the grain of the
   write calls of RotatingWriter::write_line_result *)

MaxConcurrent == 2

ConcTasks == 1..MaxConcurrent

\* a file as the lines written to it; writeln! on a File issues one write
\* for the text of the line and one for the newline, so the last line stays
\* open until its newline arrives
AppendText(file, text) ==
    IF Len(file) > 0 /\ ~file[Len(file)].closed
    THEN [file EXCEPT ![Len(file)].parts = Append(@, text)]
    ELSE Append(file, [parts |-> <<text>>, closed |-> FALSE])

AppendNewline(file) ==
    IF Len(file) > 0 /\ ~file[Len(file)].closed
    THEN [file EXCEPT ![Len(file)].closed = TRUE]
    ELSE Append(file, [parts |-> <<>>, closed |-> TRUE])

\* variant: every record goes to the telemetry writer when there is one
WriterFor_TelemetryFirst(kind) ==
    IF config.telemetryWriter THEN "telemetry"
    ELSE IF kind = "audit" /\ config.auditWriter THEN "audit"
    ELSE "none"

\* the writer emit_event and emit_audit hand to write_line
WriterFor(kind) ==
    IF kind = "event"
    THEN (IF config.telemetryWriter THEN "telemetry" ELSE "none")
    ELSE IF config.auditWriter THEN "audit"
    ELSE IF config.telemetryWriter THEN "telemetry"
    ELSE "none"

\* task r is between target.lock() and the drop of the guard of writer w
HoldsWriter(r, w) ==
    \/ task[r].pc \in {"event_text", "event_newline"} /\ WriterFor("event") = w
    \/ task[r].pc \in {"audit_text", "audit_newline"} /\ WriterFor("audit") = w

RecordOf(r, kind) == IF kind = "event" THEN EventRecord(r) ELSE AuditRecord(r)

\* where the handler goes on after emit_event, and after emit_audit
AfterEmit(r, kind) ==
    IF kind = "event" /\ AuditSuppressed(r) THEN "emit_audit" ELSE "count_req"

\* the task's own account of what it handed to the sink
NoteEmitted(t, kind, record) ==
    IF kind = "event" THEN [t EXCEPT !.events = Append(@, record)]
    ELSE [t EXCEPT !.audits = Append(@, record)]

ConcConfigs ==
    { [BaseConfig EXCEPT !.order = <<"bogus", "secrets", "exfil">>],
      [BaseConfig EXCEPT !.order = <<"exfil", "secrets">>, !.auditOnly = TRUE],
      [BaseConfig EXCEPT !.order = <<"secrets", "secrets">>, !.auditOnly = TRUE,
                         !.auditWriter = TRUE],
      [BaseConfig EXCEPT !.order = <<"secrets">>, !.budgetMs = 0,
                         !.telemetryWriter = FALSE] }

ConcPayloads == {PBenign, PSecret, PExfil}

ConcInit ==
    /\ config \in {AppState(c) : c \in ConcConfigs}
    /\ task = [r \in ConcTasks |-> IdleTask]
    /\ served = 0
    /\ metrics = ZeroMetrics(config.order)
    /\ eventSink = <<>>
    /\ auditSink = <<>>
    /\ rejected = <<>>
    /\ fnIn = None
    /\ fnOut = None

\* each task serves one request, which carries its own correlation id
ConcAccept(r) ==
    /\ task[r].pc = "idle"
    /\ \E p \in ConcPayloads :
         LET http == [GoodHttp(p) EXCEPT
                         !.correlationId = Some("req-" \o ToString(r))]
         IN /\ ~IsSome(AnalyzeChecks(http, config))
            /\ task' = [task EXCEPT ![r] =
                   [IdleTask EXCEPT !.pc = "ctx",
                                    !.req = Some(JsonExtract(http, config).payload),
                                    !.corr = Unwrap(http.correlationId),
                                    !.start = 0]]
    /\ served' = served + 1
    /\ UNCHANGED <<config, metrics, eventSink, auditSink, rejected,
                   fnIn, fnOut>>

\* write_line with no writer: nothing is written and no counter moves
ConcSkipWrite(r) ==
    /\ \E kind \in {"event", "audit"} :
         /\ task[r].pc = "emit_" \o kind
         /\ WriterFor(kind) = "none"
         /\ task' = [task EXCEPT ![r] =
                [NoteEmitted(task[r], kind, RecordOf(r, kind)) EXCEPT
                    !.pc = AfterEmit(r, kind)]]
    /\ UNCHANGED <<config, served, metrics, eventSink, auditSink, rejected,
                   fnIn, fnOut>>

\* variant: the writer is used without taking its mutex
ConcLock_NoMutex(r) ==
    /\ \E kind \in {"event", "audit"} :
         /\ task[r].pc = "emit_" \o kind
         /\ WriterFor(kind) # "none"
         /\ task' = [task EXCEPT ![r] =
                [NoteEmitted(task[r], kind, RecordOf(r, kind)) EXCEPT
                    !.pc = kind \o "_text"]]
    /\ UNCHANGED <<config, served, metrics, eventSink, auditSink, rejected,
                   fnIn, fnOut>>

\* target.lock(): the task goes on once no other task holds the writer
ConcLock(r) ==
    /\ \E kind \in {"event", "audit"} :
         /\ task[r].pc = "emit_" \o kind
         /\ WriterFor(kind) # "none"
         /\ \A other \in DOMAIN task \ {r} : ~HoldsWriter(other, WriterFor(kind))
         /\ task' = [task EXCEPT ![r] =
                [NoteEmitted(task[r], kind, RecordOf(r, kind)) EXCEPT
                    !.pc = kind \o "_text"]]
    /\ UNCHANGED <<config, served, metrics, eventSink, auditSink, rejected,
                   fnIn, fnOut>>

\* variant: a failed write is not counted
ConcWriteText_SilentFailure(r) ==
    /\ \E kind \in {"event", "audit"}, ok \in BOOLEAN :
         /\ task[r].pc = kind \o "_text"
         /\ IF ok
            THEN /\ IF WriterFor(kind) = "telemetry"
                    THEN /\ eventSink' = AppendText(eventSink, RecordOf(r, kind))
                         /\ UNCHANGED auditSink
                    ELSE /\ auditSink' = AppendText(auditSink, RecordOf(r, kind))
                         /\ UNCHANGED eventSink
                 /\ task' = [task EXCEPT ![r].pc = kind \o "_newline"]
            ELSE /\ UNCHANGED <<eventSink, auditSink>>
                 /\ task' = [task EXCEPT
                        ![r].writes = Append(@, [kind |-> kind, ok |-> FALSE]),
                        ![r].pc = AfterEmit(r, kind)]
    /\ UNCHANGED <<config, served, metrics, rejected, fnIn, fnOut>>

\* the write of the line's text; on an error write_line counts it and
\* returns, dropping the guard
ConcWriteText(r) ==
    /\ \E kind \in {"event", "audit"}, ok \in BOOLEAN :
         /\ task[r].pc = kind \o "_text"
         /\ IF ok
            THEN /\ IF WriterFor(kind) = "telemetry"
                    THEN /\ eventSink' = AppendText(eventSink, RecordOf(r, kind))
                         /\ UNCHANGED auditSink
                    ELSE /\ auditSink' = AppendText(auditSink, RecordOf(r, kind))
                         /\ UNCHANGED eventSink
                 /\ UNCHANGED metrics
                 /\ task' = [task EXCEPT ![r].pc = kind \o "_newline"]
            ELSE /\ metrics' = [metrics EXCEPT !.write_errors_total = @ + 1]
                 /\ UNCHANGED <<eventSink, auditSink>>
                 /\ task' = [task EXCEPT
                        ![r].writes = Append(@, [kind |-> kind, ok |-> FALSE]),
                        ![r].pc = AfterEmit(r, kind)]
    /\ UNCHANGED <<config, served, rejected, fnIn, fnOut>>

\* the write of the newline, then the counter and the drop of the guard
ConcWriteNewline(r) ==
    /\ \E kind \in {"event", "audit"}, ok \in BOOLEAN :
         /\ task[r].pc = kind \o "_newline"
         /\ IF ok
            THEN /\ IF WriterFor(kind) = "telemetry"
                    THEN /\ eventSink' = AppendNewline(eventSink)
                         /\ UNCHANGED auditSink
                    ELSE /\ auditSink' = AppendNewline(auditSink)
                         /\ UNCHANGED eventSink
                 /\ metrics' = [metrics EXCEPT !.lines_total = @ + 1]
            ELSE /\ metrics' = [metrics EXCEPT !.write_errors_total = @ + 1]
                 /\ UNCHANGED <<eventSink, auditSink>>
         /\ task' = [task EXCEPT
                ![r].writes = Append(@, [kind |-> kind, ok |-> ok]),
                ![r].pc = AfterEmit(r, kind)]
    /\ UNCHANGED <<config, served, rejected, fnIn, fnOut>>

ConcStep(r) ==
    \/ BuildContext(r) \/ LoopEnd(r) \/ DeadlineBreak(r)
    \/ Invoke(r) \/ PluginReturn(r) \/ Override(r) \/ HistSum(r)
    \/ HistCount(r) \/ HistBucket(r)
    \/ ConcSkipWrite(r) \/ ConcLock(r) \/ ConcWriteText(r) \/ ConcWriteNewline(r)
    \/ CountRequest(r) \/ CountBlock(r) \/ CountSuppressed(r)
    \/ PluginTimingMetrics(r) \/ Respond(r)

ConcNext == \E r \in ConcTasks : ConcAccept(r) \/ ConcStep(r)

ConcSpec == ConcInit /\ [][ConcNext]_vars

----------------------------------------------------------------------------
(* Properties of the telemetry sinks and of the counters *)

\* every task is before or after its request
Quiescent == \A r \in DOMAIN task : task[r].pc \in {"idle", "done"}

Answered200 == {r \in DOMAIN task : task[r].pc = "done" /\ task[r].status = 200}

AllWritesOk ==
    \A r \in DOMAIN task :
      \A i \in 1..Len(task[r].writes) : task[r].writes[i].ok

\* a line that holds one record and ends in its newline
CompleteLine(line) == line.closed /\ Len(line.parts) = 1

IsEventRecord(x) == "latencyMs" \in DOMAIN x
IsAuditRecord(x) == "wouldBlock" \in DOMAIN x

LinesWith(file, record) == {i \in 1..Len(file) : file[i].parts = <<record>>}

MaskedBlocks ==
    {r \in Answered200 : config.auditOnly /\ Unwrap(task[r].raw).blockAction}

Attempts(t) ==
    (IF WriterFor("event") # "none" THEN Len(t.events) ELSE 0)
    + (IF WriterFor("audit") # "none" THEN Len(t.audits) ELSE 0)

WritesOf(ok) ==
    {<<r, i>> \in (DOMAIN task) \X (1..2) :
       i <= Len(task[r].writes) /\ task[r].writes[i].ok = ok}

\* C17: every write attempt on a configured sink adds exactly 1 to exactly
\* one of telemetry_lines_total (the write succeeded) and
\* telemetry_write_errors_total (it failed), and requests with the same raw
\* verdict are answered with the same status and verdict whether their writes
\* succeeded or failed
C17_OneCounterPerWrite ==
    /\ metrics.lines_total = Cardinality(WritesOf(TRUE))
    /\ metrics.write_errors_total = Cardinality(WritesOf(FALSE))
    /\ \A r \in DOMAIN task :
         /\ Len(task[r].writes) <= Attempts(task[r])
         /\ Emitted(task[r]) => Len(task[r].writes) = Attempts(task[r])
    /\ \A r \in Answered200 :
         task[r].response = Some(OutwardResponse(config.auditOnly,
                                                 Unwrap(task[r].raw)))
    /\ \A r1, r2 \in Answered200 :
         task[r1].raw = task[r2].raw => task[r1].response = task[r2].response

\* two requests with the same raw verdict have been answered alike, one with
\* its event written and one with its event write failed
C17_Witness ==
    /\ Cardinality(Answered200) = 2
    /\ task[1].raw = task[2].raw
    /\ task[1].writes = <<[kind |-> "event", ok |-> TRUE]>>
    /\ task[2].writes = <<[kind |-> "event", ok |-> FALSE]>>
    /\ task[1].response = task[2].response
    /\ metrics.lines_total = 1
    /\ metrics.write_errors_total = 1

\* the records found in a file (a task writes two records at most)
RecordsIn(file) ==
    {file[i].parts[j] : <<i, j>> \in
        {<<i, j>> \in (1..Len(file)) \X (1..(2 * MaxConcurrent)) :
            j <= Len(file[i].parts)}}

\* C18: an audit record is written to the audit sink when one is configured
\* and otherwise to the event sink, never to both; event records are written
\* to the event sink only
C18_AuditSinkRouting ==
    /\ \A x \in RecordsIn(auditSink) : IsAuditRecord(x)
    /\ auditSink # <<>> => config.auditWriter
    /\ config.auditWriter => \A x \in RecordsIn(eventSink) : IsEventRecord(x)
    /\ \A r \in DOMAIN task :
         \A i \in 1..Len(task[r].writes) :
           (task[r].writes[i].kind = "audit" /\ task[r].writes[i].ok) =>
             /\ task[r].audits[1] \in RecordsIn(auditSink) <=> config.auditWriter
             /\ task[r].audits[1] \in RecordsIn(eventSink) <=> ~config.auditWriter
    /\ \A r \in DOMAIN task :
         \A i \in 1..Len(task[r].writes) :
           (task[r].writes[i].kind = "event" /\ task[r].writes[i].ok) =>
             task[r].events[1] \in RecordsIn(eventSink)

\* without an audit sink, the audit record of a masked block is a line of
\* the event sink
C18_Witness ==
    /\ ~config.auditWriter
    /\ auditSink = <<>>
    /\ \E r \in DOMAIN task :
         /\ task[r].pc = "done"
         /\ Len(task[r].audits) = 1
         /\ LinesWith(eventSink, task[r].audits[1]) # {}
         /\ LinesWith(eventSink, task[r].events[1]) # {}

\* sentra_plugin_blocks_total{plugin=name}: metrics_handler goes through
\* plugin_metric_indices
PluginBlocksTotal(name) ==
    metrics.plugin[MetricIndex(config.order, name)].block_count

\* the answered requests whose raw blocking verdict came from detector name
BlockedByDetector(name) ==
    {r \in Answered200 :
       \E i \in BlockingRuns(task[r]) :
          config.pipeline[task[r].runs[i].idx].name = name}

\* C19: once the accepted requests are answered, sentra_blocks_total is the
\* number of requests whose raw verdict was a block (masked or not),
\* sentra_audit_suppressed_total the number of masked blocks, and each
\* detector's sentra_plugin_blocks_total the number of raw blocking verdicts
\* it produced
C19_BlockCounters ==
    Quiescent =>
      /\ metrics.blocks_total
           = Cardinality({r \in Answered200 : Unwrap(task[r].raw).blockAction})
      /\ metrics.audit_suppressed_total = Cardinality(MaskedBlocks)
      /\ \A i \in 1..Len(config.pipeline) :
           PluginBlocksTotal(config.pipeline[i].name)
             = Cardinality(BlockedByDetector(config.pipeline[i].name))

\* two requests were blocked by different detectors under audit-only
C19_Witness ==
    /\ Quiescent
    /\ config.auditOnly
    /\ metrics.blocks_total = 2
    /\ metrics.audit_suppressed_total = 2
    /\ config.order = <<"exfil", "secrets">>
    /\ PluginBlocksTotal("exfil") = 1
    /\ PluginBlocksTotal("secrets") = 1

----------------------------------------------------------------------------
(* The latency histograms, over a wide range of durations *)

\* request latencies and detector durations in ms, on both sides of bucket
\* bounds and beyond the last one
HistLatencies == {0, 1, 2, 3, 5, 6, 2000, 2001, 5000}

HistTimings ==
    { <<<<"secrets", a>>>> : a \in {0, 1, 3, 2001} }
    \cup { <<<<"secrets", a>>, <<"exfil", b>>>> :
             a \in {0, 1, 3, 2001}, b \in {2, 2001} }

HistConfig ==
    [BaseConfig EXCEPT !.order = <<"secrets", "exfil">>,
                       !.telemetryWriter = FALSE]

HistInit ==
    /\ config = AppState(HistConfig)
    /\ task = [r \in Tasks |-> IdleTask]
    /\ served = 0
    /\ metrics = ZeroMetrics(config.order)
    /\ eventSink = <<>>
    /\ auditSink = <<>>
    /\ rejected = <<>>
    /\ fnIn = None
    /\ fnOut = None

\* evaluate_with_timings has returned an allow verdict for a request; the
\* time it took and the durations of its detectors are drawn from the sets
EvaluationReturns(r) ==
    /\ task[r].pc \in {"idle", "done"}
    /\ served < MaxServed
    /\ \E v \in HistLatencies, tm \in HistTimings :
         task' = [task EXCEPT ![r] =
            [IdleTask EXCEPT
                !.pc = "post",
                !.req = Some(PBenign),
                !.pre = Some(from_request_message(PBenign.userMessage,
                                 PBenign.chatHistory, PBenign.inputValues)),
                !.now = v * TicksPerMs,
                !.idx = Len(tm) + 1,
                !.timings = tm,
                !.raw = Some(AllowResponse),
                !.invoked = [i \in 1..Len(tm) |-> i],
                !.runs = [i \in 1..Len(tm) |-> [idx |-> i, response |-> None]],
                !.checked = [i \in 1..Len(tm) |-> [idx |-> i, exceeded |-> FALSE]]]]
    /\ served' = served + 1
    /\ UNCHANGED <<config, metrics, eventSink, auditSink, rejected,
                   fnIn, fnOut>>

HistNext ==
    \E r \in Tasks :
       \/ EvaluationReturns(r) \/ Override(r) \/ HistSum(r) \/ HistCount(r)
       \/ HistBucket(r) \/ EmitEvent(r) \/ CountRequest(r)
       \/ PluginTimingMetrics(r) \/ Respond(r)

HistSpec == HistInit /\ [][HistNext]_vars

\* the counts after one more observation of v, as specified: the bucket of
\* the smallest bound b with v <= b gains 1, no bucket when v is above 2000
CountsAfter(counts, v) ==
    [i \in 1..Len(HIST_BUCKETS) |->
        IF /\ v <= HIST_BUCKETS[i]
           /\ \A j \in 1..Len(HIST_BUCKETS) :
                v <= HIST_BUCKETS[j] => HIST_BUCKETS[i] <= HIST_BUCKETS[j]
        THEN counts[i] + 1 ELSE counts[i]]

\* a histogram observed v once more; le="+Inf" is exposed as _count
ObservedOnce(old, new, v) ==
    /\ new.hist_count = old.hist_count + 1
    /\ new.hist_sum_ms = old.hist_sum_ms + v
    /\ new.hist_counts = CountsAfter(old.hist_counts, v)
    /\ v > 2000 => new.hist_counts = old.hist_counts

\* C20: each observed latency v adds 1 to _count (and so to +Inf), v to
\* _sum, and 1 to the bucket of the smallest bound b with v <= b and to no
\* other; a value above 2000 changes no finite bucket.  This holds for the
\* request histogram (over the three updates of the handler) and for the
\* histogram of each detector named in the timings
C20_HistogramUpdate ==
    [][\A r \in Tasks :
         /\ (task[r].pc = "hist_sum" /\ task'[r].pc = "hist_count") =>
              /\ metrics'.hist_sum_ms = metrics.hist_sum_ms + task[r].latency
              /\ metrics'.hist_count = metrics.hist_count
              /\ metrics'.hist_counts = metrics.hist_counts
         /\ (task[r].pc = "hist_count" /\ task'[r].pc = "hist_bucket") =>
              /\ metrics'.hist_sum_ms = metrics.hist_sum_ms
              /\ metrics'.hist_count = metrics.hist_count + 1
              /\ metrics'.hist_counts = metrics.hist_counts
         /\ (task[r].pc = "hist_bucket" /\ task'[r].pc = "emit_event") =>
              /\ metrics'.hist_sum_ms = metrics.hist_sum_ms
              /\ metrics'.hist_count = metrics.hist_count
              /\ metrics'.hist_counts
                   = CountsAfter(metrics.hist_counts, task[r].latency)
              /\ task[r].latency > 2000 =>
                   metrics'.hist_counts = metrics.hist_counts
         /\ (task[r].pc = "plugin_metrics" /\ task'[r].k = task[r].k + 1) =>
              LET entry == task[r].timings[task[r].k + 1]
                  i == MetricIndex(config.order, entry[1])
              IN /\ ObservedOnce(metrics.plugin[i], metrics'.plugin[i], entry[2])
                 /\ \A j \in DOMAIN metrics.plugin :
                      j # i => metrics'.plugin[j] = metrics.plugin[j]
                 /\ metrics'.hist_counts = metrics.hist_counts
                 /\ metrics'.hist_count = metrics.hist_count
                 /\ metrics'.hist_sum_ms = metrics.hist_sum_ms]_vars

\* a request of 2001 ms and one of 5 ms have been observed: _count is 2,
\* _sum 2006, one observation is in the bucket le=5 and none elsewhere; a
\* detector that ran for 2001 ms has _count 1 and empty buckets
C20_Witness ==
    /\ metrics.hist_count = 2
    /\ metrics.hist_sum_ms = 2006
    /\ metrics.hist_counts = [ZeroHist EXCEPT ![3] = 1]
    /\ \E r \in Tasks :
         /\ task[r].pc = "done"
         /\ task[r].timings = <<<<"secrets", 3>>, <<"exfil", 2001>>>>
         /\ metrics.plugin[2].hist_count >= 1
         /\ metrics.plugin[2].hist_sum_ms >= 2001
         /\ metrics.plugin[2].hist_counts = ZeroHist

----------------------------------------------------------------------------
(* The /metrics document, read while requests update the histogram *)

\* request latencies in ms: inside the first bucket, inside a middle bucket,
\* above the last finite bound
ScrapeLatencies == {0, 3, 2001}

ScrapeConfig ==
    [BaseConfig EXCEPT !.order = <<"secrets">>, !.telemetryWriter = FALSE]

ScrapeInit ==
    /\ config = AppState(ScrapeConfig)
    /\ task = [r \in Tasks |-> IdleTask]
    /\ served = 0
    /\ metrics = ZeroMetrics(config.order)
    /\ eventSink = <<>>
    /\ auditSink = <<>>
    /\ rejected = <<>>
    /\ fnIn = None
    /\ fnOut = None

\* evaluate_with_timings has returned an allow verdict after one detector
\* (lines 770-781); the time the request took is drawn from ScrapeLatencies
ScrapeEvaluated(r) ==
    /\ task[r].pc \in {"idle", "done"}
    /\ served < MaxServed
    /\ \E v \in ScrapeLatencies :
         task' = [task EXCEPT ![r] =
            [IdleTask EXCEPT
                !.pc = "post",
                !.req = Some(PBenign),
                !.pre = Some(from_request_message(PBenign.userMessage,
                                 PBenign.chatHistory, PBenign.inputValues)),
                !.now = v * TicksPerMs,
                !.idx = 2,
                !.timings = <<<<"secrets", 0>>>>,
                !.raw = Some(AllowResponse),
                !.invoked = <<1>>,
                !.runs = <<[idx |-> 1, response |-> None]>>,
                !.checked = <<[idx |-> 1, exceeded |-> FALSE]>>]]
    /\ served' = served + 1
    /\ UNCHANGED <<config, metrics, eventSink, auditSink, rejected,
                   fnIn, fnOut>>

\* metrics_handler is entered; fnIn holds its local variables
MetricsEnter ==
    /\ fnIn = None
    /\ fnIn' = Some([pc |-> "load_sum", sum_ms |-> 0, count |-> 0, i |-> 0,
                     cumulative |-> 0, buckets |-> <<>>])
    /\ UNCHANGED <<config, task, served, metrics, eventSink, auditSink,
                   rejected, fnOut>>

\* let sum_ms = state.hist_sum_ms.load(Relaxed) (line 945)
MetricsLoadSum ==
    /\ IsSome(fnIn)
    /\ Unwrap(fnIn).pc = "load_sum"
    /\ fnIn' = Some([Unwrap(fnIn) EXCEPT !.sum_ms = metrics.hist_sum_ms,
                                         !.pc = "load_count"])
    /\ UNCHANGED <<config, task, served, metrics, eventSink, auditSink,
                   rejected, fnOut>>

\* let count = state.hist_count.load(Relaxed) (line 946)
MetricsLoadCount ==
    /\ IsSome(fnIn)
    /\ Unwrap(fnIn).pc = "load_count"
    /\ fnIn' = Some([Unwrap(fnIn) EXCEPT !.count = metrics.hist_count,
                                         !.pc = "buckets"])
    /\ UNCHANGED <<config, task, served, metrics, eventSink, auditSink,
                   rejected, fnOut>>

\* one iteration of the loop over hist_buckets (lines 1003-1013): load the
\* bucket's counter, add it to cumulative, write the bucket line
MetricsLoadBucket ==
    /\ IsSome(fnIn)
    /\ Unwrap(fnIn).pc = "buckets"
    /\ Unwrap(fnIn).i < Len(HIST_BUCKETS)
    /\ LET m == Unwrap(fnIn)
           c == metrics.hist_counts[m.i + 1]
       IN fnIn' = Some([m EXCEPT !.i = @ + 1,
                                 !.cumulative = @ + c,
                                 !.buckets = Append(@, m.cumulative + c)])
    /\ UNCHANGED <<config, task, served, metrics, eventSink, auditSink,
                   rejected, fnOut>>

\* the +Inf, _sum and _count lines (lines 1014-1022) and the response; the
\* document keeps the histogram lines only
MetricsRespond ==
    /\ IsSome(fnIn)
    /\ Unwrap(fnIn).pc = "buckets"
    /\ Unwrap(fnIn).i = Len(HIST_BUCKETS)
    /\ LET m == Unwrap(fnIn)
       IN fnOut' = Some([bucket |-> m.buckets, inf |-> m.count,
                         sum |-> m.sum_ms, count |-> m.count])
    /\ fnIn' = None
    /\ UNCHANGED <<config, task, served, metrics, eventSink, auditSink,
                   rejected>>

ScrapeNext ==
    \/ MetricsEnter \/ MetricsLoadSum \/ MetricsLoadCount
    \/ MetricsLoadBucket \/ MetricsRespond
    \/ \E r \in Tasks :
          \/ ScrapeEvaluated(r) \/ Override(r) \/ HistSum(r) \/ HistCount(r)
          \/ HistBucket(r) \/ EmitEvent(r) \/ CountRequest(r)
          \/ PluginTimingMetrics(r) \/ Respond(r)

ScrapeSpec == ScrapeInit /\ [][ScrapeNext]_vars

\* the cumulative values of a document in le order, +Inf last
CumulativeValues(doc) == Append(doc.bucket, doc.inf)

\* the count of each bucket alone: its cumulative value less the one before
PerBucketCounts(doc) ==
    [i \in 1..Len(CumulativeValues(doc)) |->
        CumulativeValues(doc)[i]
          - (IF i = 1 THEN 0 ELSE CumulativeValues(doc)[i - 1])]

HistogramConsistent(doc) ==
    /\ \A i, j \in 1..Len(CumulativeValues(doc)) :
         i <= j => CumulativeValues(doc)[i] <= CumulativeValues(doc)[j]
    /\ doc.inf = doc.count
    /\ \A i \in 1..Len(PerBucketCounts(doc)) : PerBucketCounts(doc)[i] >= 0
    /\ SeqSum([i \in 1..Len(PerBucketCounts(doc)) |-> PerBucketCounts(doc)[i]])
         = doc.count

\* C21: in every /metrics document the cumulative bucket values do not
\* decrease up to and including +Inf, the +Inf bucket equals _count, and
\* the per-bucket counts are counts that add up to _count
C21_HistogramDocumentConsistent ==
    IsSome(fnOut) => HistogramConsistent(Unwrap(fnOut))

\* what does hold of every document: the finite buckets do not decrease,
\* +Inf equals _count, and no value exceeds what the counters hold by then
C21_FiniteBucketsMonotonic ==
    IsSome(fnOut) =>
      LET doc == Unwrap(fnOut)
      IN /\ \A i, j \in 1..Len(doc.bucket) :
              i <= j => doc.bucket[i] <= doc.bucket[j]
         /\ doc.inf = doc.count
         /\ doc.count <= metrics.hist_count
         /\ doc.bucket[Len(doc.bucket)] <= SeqSum(metrics.hist_counts)

\* a document whose le="2000" line reads 1 while le="+Inf" and _count read 0
C21_Torn ==
    /\ IsSome(fnOut)
    /\ Unwrap(fnOut).bucket[Len(HIST_BUCKETS)] = 1
    /\ Unwrap(fnOut).inf = 0

----------------------------------------------------------------------------
(* The latency of a request and the durations of its detectors *)

\* sum(pluginTimings[*].ms) of an event record
TimingsTotal(record) ==
    SeqSum([i \in 1..Len(record.pluginTimings) |-> record.pluginTimings[i][2]])

\* C22: every emitted event record has latencyMs >= the sum of the ms of
\* its pluginTimings; the record written to the event sink is the emitted one
C22_LatencyCoversTimings ==
    /\ \A r \in Tasks :
         \A i \in 1..Len(task[r].events) :
            /\ task[r].events[i].latencyMs >= TimingsTotal(task[r].events[i])
            /\ task[r].events[i].latencyMs = task[r].latency
            /\ task[r].events[i].pluginTimings = task[r].timings
    /\ \A i \in 1..Len(eventSink) :
         IsEventRecord(eventSink[i]) =>
            eventSink[i].latencyMs >= TimingsTotal(eventSink[i])

\* an event record of two detectors, one of which took a whole millisecond
\* and the other less, in a request of one whole millisecond and a half
C22_Witness ==
    \E r \in Tasks :
       /\ Len(task[r].events) = 1
       /\ Len(task[r].events[1].pluginTimings) = 2
       /\ TimingsTotal(task[r].events[1]) = 1
       /\ task[r].events[1].latencyMs = 1
       /\ task[r].now = 2 * TicksPerMs - 1

----------------------------------------------------------------------------
(* The keyword-matcher cache (util.rs ac_for), called by concurrent tasks *)

MaxCalls == 2       \* calls of ac_for one task makes in one behaviour
HashBits == 16      \* width kept of the 64-bit key

\* the byte of a character of the keyword alphabet
KeywordAlphabet == "abcdefghijklmnopqrstuvwxyz"
ByteOf(c) == 96 + (CHOOSE i \in 1..Len(KeywordAlphabet) : CharAt(KeywordAlphabet, i) = c)

\* Hasher::write of the bytes of one str followed by the 0xff that
\* str::hash appends; the mixing function of AHasher is replaced by a
\* multiply-and-add over the kept width
RECURSIVE HashBytes(_, _)
HashBytes(h, s) ==
    IF Len(s) = 0 THEN (h * 31 + 255) % (2 ^ HashBits)
    ELSE HashBytes((h * 31 + ByteOf(CharAt(s, 1))) % (2 ^ HashBits), Tail(s))

\* for pat in list { pat.hash(&mut hasher) }; hasher.finish()
RECURSIVE HashList(_, _)
HashList(h, list) ==
    IF Len(list) = 0 THEN h ELSE HashList(HashBytes(h, list[1]), Tail(list))

AcKey(list) == HashList(0, list)

\* the keyword lists ac_for is called with
AcLists == {<<"ssn">>, <<"ssn", "iban">>, <<"ss", "niban">>}

IdleCaller == [pc |-> "idle", list |-> <<>>, key |-> 0, arc |-> 0, got |-> <<>>]

\* fnOut holds the process-wide state: AC_CACHE as a set of <<key, arc>>
\* entries (at most one per key) and the number of Arcs allocated so far;
\* an Arc is identified by its allocation number
AcInit ==
    /\ config = AppState(BaseConfig)
    /\ task = [r \in ConcTasks |-> IdleCaller]
    /\ served = 0
    /\ metrics = ZeroMetrics(config.order)
    /\ eventSink = <<>>
    /\ auditSink = <<>>
    /\ rejected = <<>>
    /\ fnIn = None
    /\ fnOut = [cache |-> {}, allocated |-> 0]

CacheGet(cache, key) ==
    IF \E e \in cache : e[1] = key
    THEN Some((CHOOSE e \in cache : e[1] = key)[2])
    ELSE None

\* DashMap::insert: the entry of the key is created or replaced
CacheInsert(cache, key, arc) ==
    {e \in cache : e[1] # key} \cup {<<key, arc>>}

\* a task calls ac_for(list) and computes the key (lines 141-147)
AcCall(r) ==
    /\ task[r].pc = "idle"
    /\ Len(task[r].got) < MaxCalls
    /\ \E list \in AcLists :
         task' = [task EXCEPT ![r].pc = "get", ![r].list = list,
                              ![r].key = AcKey(list)]
    /\ UNCHANGED <<config, served, metrics, eventSink, auditSink, rejected,
                   fnIn, fnOut>>

\* AC_CACHE.get(&key): a hit returns a clone of the cached Arc (148-150)
AcGet(r) ==
    /\ task[r].pc = "get"
    /\ LET hit == CacheGet(fnOut.cache, task[r].key)
       IN task' = IF IsSome(hit)
                  THEN [task EXCEPT ![r].pc = "idle",
                          ![r].got = Append(@, [list |-> task[r].list,
                                                arc |-> Unwrap(hit),
                                                cached |-> TRUE])]
                  ELSE [task EXCEPT ![r].pc = "build"]
    /\ UNCHANGED <<config, served, metrics, eventSink, auditSink, rejected,
                   fnIn, fnOut>>

\* the automaton is built and put into a new Arc (lines 151-160)
AcBuild(r) ==
    /\ task[r].pc = "build"
    /\ fnOut' = [fnOut EXCEPT !.allocated = @ + 1]
    /\ task' = [task EXCEPT ![r].pc = "insert", ![r].arc = fnOut.allocated + 1]
    /\ UNCHANGED <<config, served, metrics, eventSink, auditSink, rejected,
                   fnIn>>

\* AC_CACHE.insert(key, arc.clone()); arc (lines 161-162)
AcInsert(r) ==
    /\ task[r].pc = "insert"
    /\ fnOut' = [fnOut EXCEPT
                   !.cache = CacheInsert(@, task[r].key, task[r].arc)]
    /\ task' = [task EXCEPT ![r].pc = "idle",
                  ![r].got = Append(@, [list |-> task[r].list,
                                        arc |-> task[r].arc,
                                        cached |-> FALSE])]
    /\ UNCHANGED <<config, served, metrics, eventSink, auditSink, rejected,
                   fnIn>>

AcNext == \E r \in ConcTasks : AcCall(r) \/ AcGet(r) \/ AcBuild(r) \/ AcInsert(r)

AcSpec == AcInit /\ [][AcNext]_vars

\* everything ac_for has returned so far, over all tasks
Returned == UNION {Range(task[r].got) : r \in ConcTasks}

\* C23: any two calls of ac_for with the same list return the same Arc,
\* whichever tasks make them, and the cache holds one entry for the list
C23_SameMatcher ==
    /\ \A a, b \in Returned : a.list = b.list => a.arc = b.arc
    /\ \A e, f \in fnOut.cache : e[1] = f[1] => e = f

\* what holds of every behaviour: one entry per key, a hit returns an Arc
\* built for the same list, and different lists never share an Arc
C23_OneEntryPerKey ==
    /\ \A e, f \in fnOut.cache : e[1] = f[1] => e = f
    /\ \A a, b \in Returned : a.arc = b.arc => a.list = b.list
    /\ \A a \in Returned : \E b \in Returned :
         b.arc = a.arc /\ ~b.cached /\ b.list = a.list

\* two tasks have each been handed a matcher for the same list, and the two
\* are different Arcs, both built on a miss
C23_TwoMatchers ==
    \E a, b \in Returned :
       /\ a.list = b.list /\ a.arc # b.arc /\ ~a.cached /\ ~b.cached

----------------------------------------------------------------------------
(* The request body of an external detector *)

\* serde_json's escaping of one character inside a JSON string
EscapeChar(c) ==
    CASE c = "\"" -> "\\\""
      [] c = "\\" -> "\\\\"
      [] c = "\n" -> "\\n"
      [] c = "\t" -> "\\t"
      [] c = "\r" -> "\\r"
      [] OTHER -> c

\* escape_json_string: serde_json::to_string without the two quotes
RECURSIVE escape_json_string(_)
escape_json_string(value) ==
    IF Len(value) = 0 THEN ""
    ELSE EscapeChar(CharAt(value, 1)) \o escape_json_string(Tail(value))

\* serde_json::to_string on a &str
StrToJson(value) == "\"" \o escape_json_string(value) \o "\""

\* serde_json::Value::to_string: the compact rendering
RECURSIVE ValueToString(_)
RECURSIVE JoinRendered(_, _, _)
JoinRendered(items, i, isObject) ==
    IF i > Len(items) THEN ""
    ELSE (IF i > 1 THEN "," ELSE "")
         \o (IF isObject
             THEN StrToJson(items[i][1]) \o ":" \o ValueToString(items[i][2])
             ELSE ValueToString(items[i]))
         \o JoinRendered(items, i + 1, isObject)

ValueToString(val) ==
    CASE val.t = "string" -> StrToJson(val.v)
      [] val.t = "number" -> ToString(val.v)
      [] val.t = "bool" -> (IF val.v THEN "true" ELSE "false")
      [] val.t = "null" -> "null"
      [] val.t = "array" -> "[" \o JoinRendered(val.v, 1, FALSE) \o "]"
      [] val.t = "object" -> "{" \o JoinRendered(val.v, 1, TRUE) \o "}"

\* str::find: the position of the first occurrence of a pattern, 0 if none
str_find(s, pat) ==
    LET hits == {i \in 1..(Len(s) - Len(pat) + 1) :
                    SubSeq(s, i, i + Len(pat) - 1) = pat}
    IN IF hits = {} THEN 0 ELSE CHOOSE i \in hits : \A j \in hits : i <= j

\* str::replace: every non-overlapping occurrence, from left to right
RECURSIVE str_replace(_, _, _)
str_replace(s, from, to) ==
    LET i == str_find(s, from)
    IN IF i = 0 THEN s
       ELSE SubSeq(s, 1, i - 1) \o to
            \o str_replace(SubSeq(s, i + Len(from), Len(s)), from, to)

DEFAULT_TEMPLATE ==
    "{\n  \"userMessage\": \"${userMessage}\",\n  \"toolName\": \"${toolName}\",\n  \"input\": ${inputJson}\n}"

\* ExternalHttpPlugin::render_body with the definition's request_template
render_body(request_template, req) ==
    LET template == IF IsSome(request_template) THEN Unwrap(request_template)
                    ELSE DEFAULT_TEMPLATE
        user_message_raw == IF IsSome(req.userMessage)
                            THEN Unwrap(req.userMessage) ELSE ""
        tool_name_raw == IF IsSome(req.toolName) THEN Unwrap(req.toolName)
                         ELSE ""
        user_message == escape_json_string(user_message_raw)
        tool_name == escape_json_string(tool_name_raw)
        user_message_json == StrToJson(user_message_raw)
        tool_name_json == StrToJson(tool_name_raw)
        input_json == ValueToString(JObj(req.inputValues))
        r1 == str_replace(template, "${inputJson}", input_json)
        r2 == str_replace(r1, "${userMessageJson}", user_message_json)
        r3 == str_replace(r2, "${toolNameJson}", tool_name_json)
        r4 == str_replace(r3, "${userMessage}", user_message)
    IN str_replace(r4, "${toolName}", tool_name)

(* serde_json::from_str, for the grammar the rendering can produce: objects,
   arrays, strings with the escapes above, non-negative integers, true,
   false and null. A parse yields [ok, v, pos]: pos is the position after
   the value. *)
ParseFail == [ok |-> FALSE, v |-> JNull, pos |-> 0]
Parsed(val, pos) == [ok |-> TRUE, v |-> val, pos |-> pos]

SkipWs(s, p) == RunEnd(s, p, Whitespace) + 1

\* the text of a string whose opening quote has been read
RECURSIVE ParseStringBody(_, _, _)
ParseStringBody(s, p, acc) ==
    IF p > Len(s) THEN ParseFail
    ELSE LET c == CharAt(s, p)
         IN IF c = "\"" THEN Parsed(acc, p + 1)
            ELSE IF c = "\\"
            THEN IF p + 1 > Len(s) THEN ParseFail
                 ELSE LET e == CharAt(s, p + 1)
                      IN IF e \in {"\"", "\\", "/"}
                         THEN ParseStringBody(s, p + 2, acc \o e)
                         ELSE IF e = "n"
                         THEN ParseStringBody(s, p + 2, acc \o "\n")
                         ELSE IF e = "t"
                         THEN ParseStringBody(s, p + 2, acc \o "\t")
                         ELSE IF e = "r"
                         THEN ParseStringBody(s, p + 2, acc \o "\r")
                         ELSE ParseFail
            ELSE IF c \in {"\n", "\t", "\r"} THEN ParseFail
            ELSE ParseStringBody(s, p + 1, acc \o c)

DigitValue(c) == (CHOOSE i \in 1..10 : CharAt(DigitChars, i) = c) - 1

RECURSIVE DigitsValue(_, _, _, _)
DigitsValue(s, p, last, acc) ==
    IF p > last THEN acc
    ELSE DigitsValue(s, p + 1, last, acc * 10 + DigitValue(CharAt(s, p)))

\* serde_json::Map::insert: a repeated key keeps its place and takes the
\* later value
MapInsert(entries, key, val) ==
    IF \E i \in 1..Len(entries) : entries[i][1] = key
    THEN [i \in 1..Len(entries) |->
             IF entries[i][1] = key THEN <<key, val>> ELSE entries[i]]
    ELSE Append(entries, <<key, val>>)

RECURSIVE ParseValue(_, _)
RECURSIVE ParseMembers(_, _, _)
RECURSIVE ParseElements(_, _, _)

\* the members of an object after its "{" or after a ","
ParseMembers(s, p, acc) ==
    LET q == SkipWs(s, p)
    IN IF q > Len(s) \/ CharAt(s, q) # "\"" THEN ParseFail
       ELSE LET key == ParseStringBody(s, q + 1, "")
                c == IF key.ok THEN SkipWs(s, key.pos) ELSE 0
                val == IF key.ok /\ c <= Len(s) /\ CharAt(s, c) = ":"
                       THEN ParseValue(s, c + 1) ELSE ParseFail
                e == IF val.ok THEN SkipWs(s, val.pos) ELSE 0
            IN IF ~val.ok \/ e > Len(s) THEN ParseFail
               ELSE IF CharAt(s, e) = ","
               THEN ParseMembers(s, e + 1, MapInsert(acc, key.v, val.v))
               ELSE IF CharAt(s, e) = "}"
               THEN Parsed(JObj(MapInsert(acc, key.v, val.v)), e + 1)
               ELSE ParseFail

\* the elements of an array after its "[" or after a ","
ParseElements(s, p, acc) ==
    LET val == ParseValue(s, p)
        e == IF val.ok THEN SkipWs(s, val.pos) ELSE 0
    IN IF ~val.ok \/ e > Len(s) THEN ParseFail
       ELSE IF CharAt(s, e) = ","
       THEN ParseElements(s, e + 1, Append(acc, val.v))
       ELSE IF CharAt(s, e) = "]"
       THEN Parsed(JArr(Append(acc, val.v)), e + 1)
       ELSE ParseFail

ParseValue(s, p) ==
    LET q == SkipWs(s, p)
        c == IF q <= Len(s) THEN CharAt(s, q) ELSE ""
        rest == SkipWs(s, q + 1)
    IN CASE c = "\"" ->
              LET str == ParseStringBody(s, q + 1, "")
              IN IF str.ok THEN Parsed(JStr(str.v), str.pos) ELSE ParseFail
         [] c = "{" ->
              IF rest <= Len(s) /\ CharAt(s, rest) = "}"
              THEN Parsed(JObj(<<>>), rest + 1)
              ELSE ParseMembers(s, q + 1, <<>>)
         [] c = "[" ->
              IF rest <= Len(s) /\ CharAt(s, rest) = "]"
              THEN Parsed(JArr(<<>>), rest + 1)
              ELSE ParseElements(s, q + 1, <<>>)
         [] c \in DigitSet ->
              LET last == RunEnd(s, q, DigitSet)
              IN Parsed(JNum(DigitsValue(s, q, last, 0)), last + 1)
         [] c = "t" /\ q + 3 <= Len(s) /\ SubSeq(s, q, q + 3) = "true" ->
              Parsed(JBool(TRUE), q + 4)
         [] c = "f" /\ q + 4 <= Len(s)
                    /\ SubSeq(s, q, q + 4) = "false" ->
              Parsed(JBool(FALSE), q + 5)
         [] c = "n" /\ q + 3 <= Len(s) /\ SubSeq(s, q, q + 3) = "null" ->
              Parsed(JNull, q + 4)
         [] OTHER -> ParseFail

\* serde_json::from_str::<Value>: one value, then only whitespace
from_str(s) ==
    LET val == ParseValue(s, 1)
    IN IF val.ok /\ SkipWs(s, val.pos) > Len(s)
       THEN Some(val.v)
       ELSE None

----------------------------------------------------------------------------
(* The detectors as functions of their inputs *)

\* all strings over an alphabet (a set of one-character strings) of length n,
\* and of length at most n
RECURSIVE StringsOfLen(_, _)
StringsOfLen(alphabet, n) ==
    IF n = 0 THEN {""}
    ELSE {c \o s : c \in alphabet, s \in StringsOfLen(alphabet, n - 1)}
StringsUpTo(alphabet, n) == UNION {StringsOfLen(alphabet, k) : k \in 0..n}

MaxDomainText == 6      \* longest text handed to domain_in_text

\* texts of a domain character, a dot, a hyphen and a blank; blocklists of a
\* domain that overlaps itself, a one-letter domain, both, and the empty one
DomainTexts == StringsUpTo({"a", ".", "-", " "}, MaxDomainText)
DomainLists == {<<"a.a">>, <<"a">>, <<"a", "a.a">>, <<"">>}

DomainInputs ==
    {[fn |-> "domain_in_text", text |-> t, domains |-> d] :
        t \in DomainTexts, d \in DomainLists}

\* haystacks with no address, one address or two, in either letter case, at
\* the company domain, at another domain, and followed by a full stop
EmailAddresses ==
    {l \o "@" \o h : l \in {"a", "A", "a.b"}, h \in {"b.co", "B.Co", "c.co", "b.com"}}
EmailHaystacks ==
    {"", "mail a at b.co", "@b.co"}
    \cup {pre \o e \o post : pre \in {"", "to "}, e \in EmailAddresses,
                              post \in {"", " now", "."}}
    \cup {e \o sep \o f : e \in EmailAddresses, f \in {"a@b.co", "a@c.co"},
                           sep \in {" ", ","}}
CompanyDomains == {"b.co", "B.co", "B.CO"}

EmailClauseInputs ==
    {[fn |-> "contains_non_company_pii", text |-> t,
      cfg |-> [BaseConfig EXCEPT !.companyDomain = d]] :
        t \in EmailHaystacks, d \in CompanyDomains}

\* requests for the PII detector: IBANs with letters after the check digits
\* (tail of 14, of exactly 10, of 9), an all-digit IBAN, one that is not
\* word-bounded, in the user message or in a leaf of inputValues
IbanTexts ==
    {"GB82WESTABCDEFGHIJ", "pay GB82WESTABCDEF now", "GB82WESTABCDE",
     "My IBAN is GB82WEST12345698765432", "xGB82WESTABCDEFGHIJ", "hello"}
PiiRequests ==
    {AnalyzeRequest(Some(m), Some("SendEmail"), <<>>) : m \in IbanTexts}
    \cup {AnalyzeRequest(Some("pay"), Some("SendEmail"), <<<<"iban", JStr(m)>>>>) :
             m \in IbanTexts}
    \cup {AnalyzeRequest(Some("pay"), Some("SendEmail"),
             <<<<"accounts", JArr(<<JNum(1),
                   JObj(<<<<"iban", JStr(m)>>>>)>>)>>>>) : m \in IbanTexts}

PiiInputs ==
    {[fn |-> "eval", name |-> "pii", req |-> q, cfg |-> c] :
        q \in PiiRequests,
        c \in {BaseConfig, [BaseConfig EXCEPT !.piiKeywords = <<"hello">>]}}

\* requests for the email_bcc detector: tool names with and without "mail"
\* in either letter case or absent; bcc absent, under another key, a string
\* (empty, blank, padded, at the company domain or not) or not a string
BccTools == {None, Some("SendEmail"), Some("MAILER"), Some("Fetch"), Some("Mai l")}
BccValues ==
    {JStr(v) : v \in {"", "  ", "x@evil.com", " X@YourCompany.com ",
                      "bob@yourcompany.com", "yourcompany.com",
                      "a@yourcompany.com.evil", "\tx@evil.com\n"}}
    \cup {JNum(1), JNull, JBool(TRUE), JArr(<<JStr("x@evil.com")>>)}
BccInputValues ==
    {<<>>, <<<<"BCC", JStr("x@evil.com")>>>>, <<<<"to", JStr("x@evil.com")>>>>}
    \cup {<<<<"bcc", v>>>> : v \in BccValues}
    \cup {<<<<"bcc", v>>, <<"to", JStr("x@evil.com")>>>> : v \in BccValues}

BccInputs ==
    {[fn |-> "eval", name |-> "email_bcc",
      req |-> AnalyzeRequest(Some("Send"), t, i), cfg |-> c] :
        t \in BccTools, i \in BccInputValues,
        c \in {BaseConfig, [BaseConfig EXCEPT !.companyDomain = "YourCompany.com"]}}

\* policy rules on one argument: the argument name in three letter cases,
\* the tool set or not, a literal, a pattern, a pattern that does not compile
PolicyRule(tool, arg, literals, patterns, code, reason) ==
    [tool |-> tool, arg |-> arg, contains |-> literals, patterns |-> patterns,
     reasonCode |-> code, reason |-> reason]
ArgRules ==
    {PolicyRule(t, Some(a), c[1], c[2], None, None) :
        t \in {None, Some("SendEmail"), Some("fetch")},
        a \in {"body", "Body", "BODY"},
        c \in {<<<<"secret">>, <<>>>>, <<<<"Secret">>, <<"(">>>>,
               <<<<>>, <<"Top">>>>}}
ArgInputValues ==
    {<<>>,
     <<<<"body", JStr("A SECRET plan")>>>>,
     <<<<"Body", JStr("a secret plan")>>>>,
     <<<<"BODY", JStr("top")>>, <<"body", JStr("nothing")>>>>,
     <<<<"body", JNum(7)>>>>,
     <<<<"body", JArr(<<JStr("secret")>>)>>>>,
     <<<<"other", JStr("secret top")>>>>}
ArgRequests ==
    {AnalyzeRequest(Some("secret top"), t, i) :
        t \in {None, Some("SendEmail"), Some("sendemail")}, i \in ArgInputValues}

ArgRuleInputs ==
    {[fn |-> "eval", name |-> "policy_pack", req |-> q,
      cfg |-> [BaseConfig EXCEPT !.policies = <<r>>]] :
        q \in ArgRequests, r \in ArgRules}

\* rule lists of up to MaxRules rules on the whole text, with and without
\* a reason code and a reason of their own, one of them for one tool only
MaxRules == 3
OrderRules ==
    {PolicyRule(None, None, <<"secret">>, <<>>, Some(701), Some("no secrets")),
     PolicyRule(None, None, <<"top">>, <<>>, None, None),
     PolicyRule(None, None, <<>>, <<"PLAN">>, Some(703), None),
     PolicyRule(Some("Fetch"), None, <<"secret">>, <<>>, None, Some("not by fetch"))}
OrderPolicies ==
    UNION {[1..n -> OrderRules] : n \in 1..MaxRules}
OrderRequests ==
    {AnalyzeRequest(Some(m), Some(t), <<<<"note", JStr(v)>>>>) :
        m \in {"Secret top", "nothing"}, t \in {"SendEmail", "fetch"},
        v \in {"the plan", "none"}}

OrderInputs ==
    {[fn |-> "eval", name |-> "policy_pack", req |-> q,
      cfg |-> [BaseConfig EXCEPT !.policies = p]] :
        q \in OrderRequests, p \in OrderPolicies}

\* user messages and tool names with quotes, backslashes, newlines and
\* placeholder-like text, for render_body
RenderTexts ==
    {None, Some("hi"), Some("say \"x\""), Some("a\\b\\"), Some("l1\nl2"),
     Some("${userMessage}"), Some("${toolName}"), Some("${inputJson}"),
     Some("${userMessageJson}")}
RenderInputValues ==
    {<<>>, <<<<"nested", JStr("value")>>>>,
     <<<<"a", JNum(12)>>, <<"b", JArr(<<JBool(TRUE), JNull>>)>>>>,
     <<<<"k", JObj(<<<<"n", JStr("q\"")>>>>)>>>>,
     <<<<"k", JStr("${userMessage}")>>>>,
     <<<<"k", JStr("${toolNameJson}")>>>>}
RenderInputs ==
    {[fn |-> "render_body", request_template |-> None,
      req |-> AnalyzeRequest(m, t, i)] :
        m \in RenderTexts, t \in RenderTexts, i \in RenderInputValues}

\* detector orders and configurations for PluginPipeline::new
MaxOrder == 3
OrderNames ==
    {"secrets", "pii", "policy_pack", "external_a", "external_x", "external_",
     "Secrets", "bogus"}
PipelineConfigs ==
    {[BaseConfig EXCEPT !.policies = p, !.externalHttp = e] :
        p \in {<<>>, <<PolicyRule(None, None, <<"secret">>, <<>>, None, None)>>},
        e \in {<<>>, <<ExternalA>>, <<ExternalB, ExternalA>>,
               <<ExternalA, [ExternalA EXCEPT !.reasonCode = 861]>>}}
PipelineInputs ==
    {[fn |-> "new", order |-> o, cfg |-> c] :
        o \in UNION {[1..n -> OrderNames] : n \in 0..MaxOrder},
        c \in PipelineConfigs}

DetInputs ==
    DomainInputs \cup EmailClauseInputs \cup PiiInputs \cup BccInputs
    \cup ArgRuleInputs \cup OrderInputs \cup RenderInputs \cup PipelineInputs

DetInit ==
    /\ config = AppState(BaseConfig)
    /\ task = [r \in Tasks |-> IdleTask]
    /\ served = 0
    /\ metrics = ZeroMetrics(config.order)
    /\ eventSink = <<>>
    /\ auditSink = <<>>
    /\ rejected = <<>>
    /\ fnIn \in DetInputs
    /\ fnOut = None

CallDomainInText ==
    /\ fnIn.fn = "domain_in_text"
    /\ fnOut = None
    /\ fnOut' = Some(domain_in_text(fnIn.text, fnIn.domains))
    /\ UNCHANGED <<config, task, served, metrics, eventSink, auditSink,
                   rejected, fnIn>>

\* PiiPlugin::contains_non_company_pii on one haystack
CallContainsNonCompanyPii ==
    /\ fnIn.fn = "contains_non_company_pii"
    /\ fnOut = None
    /\ fnOut' = Some(contains_non_company_pii(fnIn.text, fnIn.cfg))
    /\ UNCHANGED <<config, task, served, metrics, eventSink, auditSink,
                   rejected, fnIn>>

\* one iteration of the pipeline loop on one detector: the detector named
\* in the order is registered, its eval runs on the request and its context,
\* and the loop body derives the verdict
CallDetector ==
    /\ fnIn.fn = "eval"
    /\ fnOut = None
    /\ LET plugin == RegisterPlugin(fnIn.name, fnIn.cfg)[1]
           pre == from_request_message(fnIn.req.userMessage,
                      fnIn.req.chatHistory, fnIn.req.inputValues)
           result == PluginEval(plugin, fnIn.req, pre, fnIn.cfg, NoRemote)
       IN fnOut' = Some([result |-> result,
                         verdict |-> BlockVerdict(plugin, result)])
    /\ UNCHANGED <<config, task, served, metrics, eventSink, auditSink,
                   rejected, fnIn>>

\* ExternalHttpPlugin::eval up to the request it sends: the body is rendered
\* from the template; the receiver parses it as JSON
CallRenderBody ==
    /\ fnIn.fn = "render_body"
    /\ fnOut = None
    /\ LET body == render_body(fnIn.request_template, fnIn.req)
       IN fnOut' = Some([body |-> body, parsed |-> from_str(body)])
    /\ UNCHANGED <<config, task, served, metrics, eventSink, auditSink,
                   rejected, fnIn>>

\* PluginPipeline::new at start-up, and healthz_handler reporting the length
\* of the pipeline as pluginCount
CallPipelineNew ==
    /\ fnIn.fn = "new"
    /\ fnOut = None
    /\ LET pipeline == PipelineNew(fnIn.order, fnIn.cfg)
       IN fnOut' = Some([plugins |-> pipeline, pluginCount |-> Len(pipeline)])
    /\ UNCHANGED <<config, task, served, metrics, eventSink, auditSink,
                   rejected, fnIn>>

DetNext ==
    \/ CallDomainInText
    \/ CallContainsNonCompanyPii
    \/ CallDetector
    \/ CallRenderBody
    \/ CallPipelineNew

DetSpec == DetInit /\ [][DetNext]_vars

\* a neighbour of an occurrence, as the boundary rule wants it: absent, or
\* neither an ASCII letter or digit nor '-'
NeighbourOk(text, at) ==
    \/ at < 1
    \/ at > Len(text)
    \/ /\ CharAt(text, at) \notin (UpperSet \cup LowerSet \cup DigitSet)
       /\ CharAt(text, at) # "-"

\* the offsets of the occurrences of d in text whose two neighbours are ok
BoundedOccurrences(text, d) ==
    {i \in 0..(Len(text) - Len(d)) :
        /\ SubSeq(text, i + 1, i + Len(d)) = d
        /\ NeighbourOk(text, i)
        /\ NeighbourOk(text, i + Len(d) + 1)}

DomainCalled == fnIn.fn = "domain_in_text" /\ IsSome(fnOut)

\* C24: domain_in_text reports a match iff the text holds an occurrence of
\* a blocklist domain with both neighbours absent or outside [A-Za-z0-9-],
\* whichever occurrence of the domain that is
C24_MatchIffBoundedOccurrence ==
    DomainCalled =>
      (Unwrap(fnOut).kind = "found"
         <=> \E i \in 1..Len(fnIn.domains) :
                BoundedOccurrences(fnIn.text, fnIn.domains[i]) # {})

\* what holds of every call: a reported match is a bounded occurrence of
\* the reported domain at the reported offset, and a text without any
\* bounded occurrence of a non-empty domain is answered with no match
C24_ReportedMatchIsBounded ==
    DomainCalled =>
      /\ Unwrap(fnOut).kind = "found" =>
           /\ \E i \in 1..Len(fnIn.domains) :
                 Unwrap(fnOut).domain = fnIn.domains[i]
           /\ Unwrap(fnOut).pos
                \in BoundedOccurrences(fnIn.text, Unwrap(fnOut).domain)
      /\ ((\A i \in 1..Len(fnIn.domains) :
             /\ fnIn.domains[i] # ""
             /\ BoundedOccurrences(fnIn.text, fnIn.domains[i]) = {})
            => Unwrap(fnOut).kind = "none")

\* the text "aa.a.a" with the blocklist ["a.a"]: the occurrence at offset 1
\* is rejected (a letter before it), the one at offset 3 is bounded by the
\* dot and the end of the text, and no match is reported
C24_MissedOverlap ==
    /\ DomainCalled
    /\ fnIn.text = "aa.a.a"
    /\ fnIn.domains = <<"a.a">>
    /\ BoundedOccurrences(fnIn.text, "a.a") = {3}
    /\ Unwrap(fnOut).kind = "none"

----------------------------------------------------------------------------
(* The email clause of the PII detector *)

\* the email matches of a haystack, as text
EmailMatches(text) ==
    {SubSeq(text, m.start, m.end) : m \in Range(EmailFindIter(text, 1))}

\* an address at the company domain, whatever the letter case of either
AtCompanyDomain(email, companyDomain) ==
    ends_with(to_lowercase(email), to_lowercase("@" \o companyDomain))

EmailClauseCalled == fnIn.fn = "contains_non_company_pii" /\ IsSome(fnOut)

\* C25: the email clause fires on a haystack iff the haystack contains an
\* email match that does not end with "@" + companyDomain, letter case
\* ignored in the address and in the configured companyDomain
C25_EmailClauseIgnoresCase ==
    EmailClauseCalled =>
      (Unwrap(fnOut)
         <=> \E e \in EmailMatches(fnIn.text) :
                ~AtCompanyDomain(e, fnIn.cfg.companyDomain))

\* what holds of every call: the clause fires iff some lower-cased match
\* does not end with "@" + companyDomain as configured, so the claim holds
\* of every configuration whose companyDomain is written in lower case
C25_LowerCasedAddressOnly ==
    EmailClauseCalled =>
      /\ Unwrap(fnOut)
           <=> \E e \in EmailMatches(fnIn.text) :
                  ~ends_with(to_lowercase(e), "@" \o fnIn.cfg.companyDomain)
      /\ fnIn.cfg.companyDomain = to_lowercase(fnIn.cfg.companyDomain) =>
           (Unwrap(fnOut)
              <=> \E e \in EmailMatches(fnIn.text) :
                     ~AtCompanyDomain(e, fnIn.cfg.companyDomain))

\* companyDomain configured as "B.co": the clause fires on the company's own
\* address a@b.co
C25_CompanyAddressFlagged ==
    /\ EmailClauseCalled
    /\ fnIn.cfg.companyDomain = "B.co"
    /\ fnIn.text = "to a@b.co now"
    /\ EmailMatches(fnIn.text) = {"a@b.co"}
    /\ Unwrap(fnOut) = TRUE

----------------------------------------------------------------------------
(* The IBAN clause of the PII detector *)

\* the string leaves of a JSON value, as the request carries them
RECURSIVE StringLeaves(_)
StringLeaves(val) ==
    CASE val.t = "string" -> {val.v}
      [] val.t = "array" -> UNION {StringLeaves(val.v[i]) : i \in 1..Len(val.v)}
      [] val.t = "object" ->
            UNION {StringLeaves(val.v[i][2]) : i \in 1..Len(val.v)}
      [] OTHER -> {}

\* the user message and the string leaves of inputValues
RequestTexts(req) ==
    (IF IsSome(req.userMessage) THEN {Unwrap(req.userMessage)} ELSE {})
    \cup UNION {StringLeaves(req.inputValues[i][2]) :
                   i \in 1..Len(req.inputValues)}

\* an IBAN: two letters, two digits, then 10 to 30 letters or digits, between
\* word boundaries
ContainsIban(text) ==
    \E i \in 1..Len(text) : \E n \in 10..30 :
        /\ i + 3 + n <= Len(text)
        /\ \A j \in {i, i + 1} : CharAt(text, j) \in UpperSet
        /\ \A j \in {i + 2, i + 3} : CharAt(text, j) \in DigitSet
        /\ \A j \in (i + 4)..(i + 3 + n) :
              CharAt(text, j) \in UpperSet \cup DigitSet
        /\ i > 1 => CharAt(text, i - 1) \notin WordSet
        /\ i + 3 + n < Len(text) => CharAt(text, i + 4 + n) \notin WordSet

PiiCalled == fnIn.fn = "eval" /\ fnIn.name = "pii" /\ IsSome(fnOut)

BlockedWith(out, code, by) ==
    /\ IsSome(out.verdict)
    /\ Unwrap(out.verdict).blockAction
    /\ Unwrap(out.verdict).reasonCode = Some(code)
    /\ Unwrap(out.verdict).blockedBy = Some(by)

\* C26: a request whose user message or any inputValues string leaf
\* contains an IBAN is blocked by the pii detector with reasonCode 202
C26_IbanBlocked ==
    PiiCalled =>
      ((\E t \in RequestTexts(fnIn.req) : ContainsIban(t))
         => BlockedWith(Unwrap(fnOut), 202, "pii"))

\* what holds of every call: IBAN_RE matches none of the haystacks the
\* detector scans (they are lower-cased and the expression wants upper-case
\* letters), and a block by pii has reasonCode 202
C26_IbanClauseNeverMatches ==
    PiiCalled =>
      LET pre == from_request_message(fnIn.req.userMessage,
                     fnIn.req.chatHistory, fnIn.req.inputValues)
      IN /\ ~IBAN_RE(pre.full_text_lower)
         /\ \A i \in 1..Len(pre.strings) : ~IBAN_RE(pre.strings[i])
         /\ IsSome(Unwrap(fnOut).verdict) =>
               BlockedWith(Unwrap(fnOut), 202, "pii")

\* the user message "GB82WESTABCDEFGHIJ" is an IBAN and the detector allows
C26_IbanAllowed ==
    /\ PiiCalled
    /\ fnIn.req.userMessage = Some("GB82WESTABCDEFGHIJ")
    /\ ContainsIban("GB82WESTABCDEFGHIJ")
    /\ Unwrap(fnOut).result = None

----------------------------------------------------------------------------
(* The email_bcc detector *)

BccCalled == fnIn.fn = "eval" /\ fnIn.name = "email_bcc" /\ IsSome(fnOut)

\* the value under the key "bcc" of inputValues, if it is a string
BccString(req) ==
    LET at == {i \in 1..Len(req.inputValues) : req.inputValues[i][1] = "bcc"}
    IN IF at # {} /\ req.inputValues[CHOOSE i \in at : TRUE][2].t = "string"
       THEN Some(req.inputValues[CHOOSE i \in at : TRUE][2].v)
       ELSE None

\* the condition under which the detector is to block
NoncompliantBcc(req, cfg) ==
    /\ IsSome(req.toolName)
    /\ contains(to_lowercase(Unwrap(req.toolName)), "mail")
    /\ IsSome(BccString(req))
    /\ to_lowercase(trim(Unwrap(BccString(req)))) # ""
    /\ ~ends_with(to_lowercase(trim(Unwrap(BccString(req)))),
                  "@" \o cfg.companyDomain)

\* C27: email_bcc blocks, with reasonCode 112 and blockedBy "email_bcc",
\* iff the lower-cased tool name contains "mail" and inputValues["bcc"] is
\* a string whose trimmed, lower-cased value is non-empty and does not end
\* with "@" + companyDomain; in every other case it allows
C27_BccBlocksIffNoncompliant ==
    BccCalled =>
      IF NoncompliantBcc(fnIn.req, fnIn.cfg)
      THEN BlockedWith(Unwrap(fnOut), 112, "email_bcc")
      ELSE Unwrap(fnOut).result = None /\ Unwrap(fnOut).verdict = None

\* a padded address at the company domain in upper case is allowed for the
\* tool "MAILER"
C27_AllowSeen ==
    /\ BccCalled
    /\ fnIn.req.toolName = Some("MAILER")
    /\ BccString(fnIn.req) = Some(" X@YourCompany.com ")
    /\ fnIn.cfg.companyDomain = "yourcompany.com"
    /\ Unwrap(fnOut).result = None

\* an address padded with a tab and a newline at another domain is blocked
C27_Witness ==
    /\ BccCalled
    /\ BccString(fnIn.req) = Some("\tx@evil.com\n")
    /\ BlockedWith(Unwrap(fnOut), 112, "email_bcc")
    /\ Unwrap(Unwrap(fnOut).result).diagnostics
         = Some([plugin |-> "email_bcc", code |-> "bcc", detail |-> "x@evil.com"])

----------------------------------------------------------------------------
(* The policy_pack detector *)

PolicyCalled == fnIn.fn = "eval" /\ fnIn.name = "policy_pack" /\ IsSome(fnOut)

\* the rule's tool, if set, is the request's tool name, letter case ignored
ToolApplies(rule, req) ==
    IsSome(rule.tool) =>
       to_lowercase(Unwrap(rule.tool))
         = to_lowercase(IF IsSome(req.toolName) THEN Unwrap(req.toolName) ELSE "")

\* a text that, lower-cased, contains a literal of the rule or matches one
\* of its patterns (literals and patterns are case-insensitive)
ConditionMet(rule, text) ==
    \/ \E i \in 1..Len(rule.contains) :
          contains(to_lowercase(text), to_lowercase(rule.contains[i]))
    \/ \E i \in 1..Len(rule.patterns) :
          /\ RegexCompiles(rule.patterns[i])
          /\ RegexIsMatch(rule.patterns[i], to_lowercase(text))

\* the string under the key of inputValues, None if absent or not a string
StringAt(req, key) ==
    LET at == {i \in 1..Len(req.inputValues) : req.inputValues[i][1] = key}
    IN IF at # {} /\ req.inputValues[CHOOSE i \in at : TRUE][2].t = "string"
       THEN Some(req.inputValues[CHOOSE i \in at : TRUE][2].v)
       ELSE None

OneArgRule ==
    /\ PolicyCalled
    /\ Len(fnIn.cfg.policies) = 1
    /\ IsSome(fnIn.cfg.policies[1].arg)

\* C28: a rule on an argument, whose tool applies, fires iff
\* inputValues[arg], with arg as the rule writes it, is a string that meets
\* the rule's condition; absent or not a string, the rule cannot fire
C28_ArgRuleFiresOnItsArgument ==
    OneArgRule =>
      LET rule == fnIn.cfg.policies[1]
          val == StringAt(fnIn.req, Unwrap(rule.arg))
      IN ToolApplies(rule, fnIn.req) =>
           (IsSome(Unwrap(fnOut).result)
              <=> (IsSome(val) /\ ConditionMet(rule, Unwrap(val))))

\* what holds of every call: the rule reads inputValues under the
\* lower-cased argument name, so the claim holds of every rule whose
\* argument name is written in lower case; the user message and the other
\* inputs are never looked at
C28_LowerCasedArgumentName ==
    OneArgRule =>
      LET rule == fnIn.cfg.policies[1]
          val == StringAt(fnIn.req, to_lowercase(Unwrap(rule.arg)))
      IN IsSome(Unwrap(fnOut).result)
           <=> /\ ToolApplies(rule, fnIn.req)
               /\ IsSome(val)
               /\ ConditionMet(rule, Unwrap(val))

\* the rule names the argument "Body", the request carries "Body" with the
\* literal in it, and the rule does not fire
C28_ArgumentMissed ==
    /\ OneArgRule
    /\ fnIn.cfg.policies[1].arg = Some("Body")
    /\ fnIn.cfg.policies[1].tool = None
    /\ fnIn.cfg.policies[1].contains = <<"secret">>
    /\ fnIn.req.inputValues = <<<<"Body", JStr("a secret plan")>>>>
    /\ Unwrap(fnOut).result = None

\* a rule on the whole text fires: its tool applies and the flattened text
\* or one of the input strings meets its condition
TextRuleFires(rule, req) ==
    /\ ToolApplies(rule, req)
    /\ \E t \in RequestTexts(req) : ConditionMet(rule, t)

\* the verdict rule i of the list gives when it fires
VerdictOfRule(rule) ==
    [blockAction |-> TRUE,
     reasonCode |-> Some(IF IsSome(rule.reasonCode)
                         THEN Unwrap(rule.reasonCode) ELSE 700),
     reason |-> Some(IF IsSome(rule.reason)
                     THEN Unwrap(rule.reason) ELSE "Policy rule triggered"),
     blockedBy |-> Some("policy_pack"),
     diagnostics |-> Some([plugin |-> "policy_pack", code |-> "policy"])]

TextRulesOnly ==
    /\ PolicyCalled
    /\ \A i \in 1..Len(fnIn.cfg.policies) : fnIn.cfg.policies[i].arg = None

\* C29: the verdict of policy_pack is that of the lowest-index rule that
\* fires, with reason code 700 and reason "Policy rule triggered" when the
\* rule sets none; the rules after it have no influence, and when no rule
\* fires the detector allows
C29_FirstFiringRuleWins ==
    TextRulesOnly =>
      LET rules == fnIn.cfg.policies
          fired == {i \in 1..Len(rules) : TextRuleFires(rules[i], fnIn.req)}
      IN IF fired = {}
         THEN Unwrap(fnOut).result = None
         ELSE \E i \in fired :
                /\ \A j \in fired : i <= j
                /\ Unwrap(fnOut).result = Some(VerdictOfRule(rules[i]))
                /\ Unwrap(fnOut).verdict = Some(VerdictOfRule(rules[i]))

\* three rules fire on one request; the first in the list sets no reason
\* code and no reason, and the verdict is 700 / "Policy rule triggered"
C29_Witness ==
    /\ TextRulesOnly
    /\ Len(fnIn.cfg.policies) = 3
    /\ \A i \in 1..3 : TextRuleFires(fnIn.cfg.policies[i], fnIn.req)
    /\ fnIn.cfg.policies[1].reasonCode = None
    /\ fnIn.cfg.policies[2].reasonCode = Some(701)
    /\ fnIn.cfg.policies[3].reasonCode = Some(703)
    /\ Unwrap(Unwrap(fnOut).result).reasonCode = Some(700)
    /\ Unwrap(Unwrap(fnOut).result).reason = Some("Policy rule triggered")

----------------------------------------------------------------------------
(* The event record as a JSON object *)

\* serde's serialisation of an Option inside json!: None becomes null
OptionJson(o, kind) == IF IsSome(o) THEN [t |-> kind, v |-> Unwrap(o)] ELSE JNull

\* the object json! builds for the event (lines 813-824): every key of the
\* literal is a key of the object; ts is wall-clock time and is left out
EventJson(record) ==
    [schemaVersion |-> JNum(record.schemaVersion),
     correlationId |-> JStr(record.correlationId),
     blockAction |-> JBool(record.blockAction),
     reasonCode |-> OptionJson(record.reasonCode, "number"),
     blockedBy |-> OptionJson(record.blockedBy, "string"),
     latencyMs |-> JNum(record.latencyMs),
     diagnostics |-> OptionJson(record.diagnostics, "object"),
     auditSuppressed |-> OptionJson(record.auditSuppressed, "bool"),
     pluginTimings |->
        JArr([i \in 1..Len(record.pluginTimings) |->
                JObj(<<<<"ms", JNum(record.pluginTimings[i][2])>>,
                       <<"plugin", JStr(record.pluginTimings[i][1])>>>>)])]

\* audit-only masked a block for the request of task r
Masked(r) ==
    /\ config.auditOnly
    /\ IsSome(task[r].raw)
    /\ Unwrap(task[r].raw).blockAction

\* C30: an event record has the key auditSuppressed, with value true, iff
\* audit-only masked a block for its request; otherwise the key is omitted
C30_AuditSuppressedKeyIffMasked ==
    \A r \in Tasks :
      \A i \in 1..Len(task[r].events) :
         LET object == EventJson(task[r].events[i])
         IN IF Masked(r)
            THEN /\ "auditSuppressed" \in DOMAIN object
                 /\ object["auditSuppressed"] = JBool(TRUE)
            ELSE "auditSuppressed" \notin DOMAIN object

\* what holds of every event record: the key is always there, true iff
\* audit-only masked a block and null otherwise
C30_AuditSuppressedTrueOrNull ==
    \A r \in Tasks :
      \A i \in 1..Len(task[r].events) :
         LET object == EventJson(task[r].events[i])
         IN /\ "auditSuppressed" \in DOMAIN object
            /\ object["auditSuppressed"]
                 = IF Masked(r) THEN JBool(TRUE) ELSE JNull

\* an allowed request without audit-only: its event record carries
\* "auditSuppressed": null
C30_NullKey ==
    \E r \in Tasks :
       /\ ~config.auditOnly
       /\ Len(task[r].events) = 1
       /\ ~task[r].events[1].blockAction
       /\ EventJson(task[r].events[1])["auditSuppressed"] = JNull

\* a masked block: the event record carries "auditSuppressed": true
C30_TrueKey ==
    \E r \in Tasks :
       /\ Masked(r)
       /\ Len(task[r].events) = 1
       /\ EventJson(task[r].events[1])["auditSuppressed"] = JBool(TRUE)

----------------------------------------------------------------------------
(* The rendered body, parsed back *)

RenderCalled == fnIn.fn = "render_body" /\ IsSome(fnOut)

\* the member of an object under a key, if any
Member(obj, key) ==
    IF obj.t = "object" /\ \E i \in 1..Len(obj.v) : obj.v[i][1] = key
    THEN Some(obj.v[CHOOSE i \in 1..Len(obj.v) : obj.v[i][1] = key][2])
    ELSE None

TextOf(o) == IF IsSome(o) THEN Unwrap(o) ELSE ""

\* the parsed body carries the request's user message, tool name and input
RoundTrips(req, out) ==
    /\ IsSome(out.parsed)
    /\ Member(Unwrap(out.parsed), "userMessage")
          = Some(JStr(TextOf(req.userMessage)))
    /\ Member(Unwrap(out.parsed), "toolName") = Some(JStr(TextOf(req.toolName)))
    /\ Member(Unwrap(out.parsed), "input") = Some(JObj(req.inputValues))

\* C31: the body rendered from the default template parses as JSON whose
\* userMessage, toolName and input fields equal the request's user message,
\* tool name and input, whatever quotes, backslashes, newlines or
\* placeholder-like text they contain.
C31_DefaultTemplateRoundTrip ==
    RenderCalled => RoundTrips(fnIn.req, Unwrap(fnOut))

\* text that holds a placeholder which a later replacement resolves
RECURSIVE Contains(_, _)
Contains(s, sub) ==
    /\ Len(s) >= Len(sub)
    /\ \/ SubSeq(s, 1, Len(sub)) = sub
       \/ Contains(Tail(s), sub)

Placeholders ==
    {"${inputJson}", "${userMessageJson}", "${toolNameJson}", "${userMessage}",
     "${toolName}"}

HoldsPlaceholder(req) ==
    \E t \in {TextOf(req.userMessage), TextOf(req.toolName)}
                \cup UNION {StringLeaves(req.inputValues[i][2]) :
                               i \in 1..Len(req.inputValues)} :
        \E ph \in Placeholders : Contains(t, ph)

\* what the code does guarantee: a request whose texts hold no placeholder
\* survives the round trip, special characters included
C31_RoundTripWithoutPlaceholders ==
    (RenderCalled /\ ~HoldsPlaceholder(fnIn.req))
        => RoundTrips(fnIn.req, Unwrap(fnOut))

\* the message "${toolName}" comes back as the tool name
C31_PlaceholderResolved ==
    /\ RenderCalled
    /\ fnIn.req.userMessage = Some("${toolName}")
    /\ fnIn.req.toolName = Some("hi")
    /\ IsSome(Unwrap(fnOut).parsed)
    /\ Member(Unwrap(Unwrap(fnOut).parsed), "userMessage") = Some(JStr("hi"))

\* a quoted placeholder in the input yields a body that is not JSON
C31_BodyNotJson ==
    /\ RenderCalled
    /\ fnIn.req.inputValues = <<<<"k", JStr("${toolNameJson}")>>>>
    /\ Unwrap(fnOut).parsed = None

\* quotes, backslashes and newlines survive
C31_SpecialCharactersSurvive ==
    /\ RenderCalled
    /\ fnIn.req.userMessage = Some("say \"x\"")
    /\ fnIn.req.toolName = Some("l1\nl2")
    /\ fnIn.req.inputValues = <<<<"k", JObj(<<<<"n", JStr("q\"")>>>>)>>>>
    /\ RoundTrips(fnIn.req, Unwrap(fnOut))

----------------------------------------------------------------------------
(* The deadline and a detector in flight *)

\* C32: the deadline is consulted only between detectors. A task leaves the
\* evaluation of a detector only with that detector's result: its timing is
\* recorded, and a blocking result is the pipeline's verdict, also when the
\* budget had elapsed by the time the detector finished.
C32_InFlightDetectorHonoured ==
    [][\A r \in Tasks :
          (task[r].pc = "eval" /\ task'[r].pc # "eval") =>
             LET t == task[r]
                 plugin == config.pipeline[t.idx]
                 run == task'[r].runs[Len(task'[r].runs)]
             IN /\ Len(task'[r].runs) = Len(t.runs) + 1
                /\ run.idx = t.idx
                /\ Len(task'[r].timings) = Len(t.timings) + 1
                /\ task'[r].timings[Len(task'[r].timings)][1] = plugin.name
                /\ IF Blocks(run.response)
                   THEN /\ task'[r].pc = "post"
                        /\ task'[r].raw = BlockVerdict(plugin, run.response)
                   ELSE /\ task'[r].pc = "loop"
                        /\ task'[r].idx = t.idx + 1]_vars

\* a detector invoked within the budget has returned a block after the
\* budget elapsed, and the block is the pipeline's verdict
C32_Witness ==
    \E r \in Tasks :
       /\ task[r].pc = "post"
       /\ task[r].runs # <<>>
       /\ Blocks(task[r].runs[Len(task[r].runs)].response)
       /\ task[r].checked[Len(task[r].checked)].exceeded = FALSE
       /\ task[r].timings # <<>>
       /\ exceeded(task[r].deadline, config.budgetMs,
                   task[r].pstart
                     + task[r].timings[Len(task[r].timings)][2] * TicksPerMs)
       /\ Blocks(task[r].raw)
       /\ Len(task[r].timings) = Len(task[r].runs)

----------------------------------------------------------------------------
(* The registered detectors *)

PipelineBuilt == fnIn.fn = "new" /\ IsSome(fnOut)

\* a name of the order that names a detector under a configuration
Recognised(name, cfg) ==
    \/ name \in {"exfil", "secrets", "pii", "email_bcc", "domain_block"}
    \/ name = "policy_pack" /\ cfg.policies # <<>>
    \/ /\ starts_with(name, "external_")
       /\ \E i \in 1..Len(cfg.externalHttp) : cfg.externalHttp[i].name = name

RecognisedNames(order, cfg) ==
    LET Keep(name) == Recognised(name, cfg) IN SelectSeq(order, Keep)

\* C33: PluginPipeline::new registers exactly the recognised names of the
\* order, in order: a built-in always, policy_pack only with at least one
\* rule, an external_ name only with a definition of exactly that name; every
\* other name is dropped, and the pluginCount of /healthz is the number of
\* registered detectors, at most the length of the order.
C33_RegistersRecognisedNames ==
    PipelineBuilt =>
        LET out == Unwrap(fnOut)
            names == RecognisedNames(fnIn.order, fnIn.cfg)
        IN /\ [i \in 1..Len(out.plugins) |-> out.plugins[i].name] = names
           /\ \A i \in 1..Len(out.plugins) :
                 out.plugins[i].kind =
                    IF starts_with(names[i], "external_") THEN "external_http"
                    ELSE names[i]
           /\ out.pluginCount = Len(names)
           /\ out.pluginCount <= Len(fnIn.order)

\* an unknown name and policy_pack without rules are dropped, the defined
\* external detector is registered
C33_Witness ==
    /\ PipelineBuilt
    /\ fnIn.order = <<"bogus", "policy_pack", "external_a">>
    /\ fnIn.cfg.policies = <<>>
    /\ Unwrap(fnOut).pluginCount = 1
    /\ Unwrap(fnOut).plugins[1].name = "external_a"

----------------------------------------------------------------------------
(* The rotating writer of a log file *)

MaxKeep == 2        \* largest LOG_ROTATE_KEEP
MaxWrites == 5      \* lines written to one file
MaxIndex == MaxKeep + 1
LineLens == {1, 2}

\* the directory of the log file: the current file, the backups <stem>.<idx>
\* and the compressed backup <stem>.1.gz, each absent or with its size in
\* bytes; with what the last write did
Directory(cur) ==
    [cur |-> cur, bak |-> [i \in 1..MaxIndex |-> None], gz |-> None,
     writes |-> 0, rotated |-> FALSE, line |-> 0]

\* variant: the loop also shifts the oldest backup one index further
rotate_backups_KeepOneMore(w, dir) ==
    LET Rename(d, idx) ==
            IF idx = 1
            THEN IF IsSome(d.cur)
                 THEN [d EXCEPT !.bak[1] = d.cur, !.cur = None] ELSE d
            ELSE IF IsSome(d.bak[idx - 1])
                 THEN [d EXCEPT !.bak[idx] = d.bak[idx - 1],
                                !.bak[idx - 1] = None]
                 ELSE d
        RECURSIVE Down(_, _)
        Down(d, idx) == IF idx < 1 THEN d ELSE Down(Rename(d, idx), idx - 1)
    IN IF w.keep = 0 THEN dir ELSE Down(dir, w.keep + 1)

\* RotatingWriter::rotate_backups: for idx from keep down to 1, the file one
\* index lower (the current file for idx 1) is renamed to index idx
rotate_backups(w, dir) ==
    LET Rename(d, idx) ==
            IF idx = 1
            THEN IF IsSome(d.cur)
                 THEN [d EXCEPT !.bak[1] = d.cur, !.cur = None] ELSE d
            ELSE IF IsSome(d.bak[idx - 1])
                 THEN [d EXCEPT !.bak[idx] = d.bak[idx - 1],
                                !.bak[idx - 1] = None]
                 ELSE d
        RECURSIVE Down(_, _)
        Down(d, idx) == IF idx < 1 THEN d ELSE Down(Rename(d, idx), idx - 1)
    IN IF w.keep = 0 THEN dir ELSE Down(dir, w.keep)

\* RotatingWriter::compress_latest_backup: <stem>.1 is read, written as
\* <stem>.1.gz and removed
compress_latest_backup(w, dir) ==
    IF ~w.compress \/ w.keep = 0 THEN dir
    ELSE IF IsSome(dir.bak[1])
         THEN [dir EXCEPT !.gz = dir.bak[1], !.bak[1] = None]
         ELSE dir

\* RotatingWriter::reopen_current: the path is created or truncated
reopen_current(w, dir) == [dir EXCEPT !.cur = Some(0)]

\* RotatingWriter::exceeds_limit
exceeds_limit(dir, limit) == IsSome(dir.cur) /\ Unwrap(dir.cur) >= limit

\* RotatingWriter::check_rotate
check_rotate(w, dir) ==
    IF IsSome(w.max_bytes) /\ exceeds_limit(dir, Unwrap(w.max_bytes))
    THEN [reopen_current(w, compress_latest_backup(w, rotate_backups(w, dir)))
             EXCEPT !.rotated = TRUE]
    ELSE [dir EXCEPT !.rotated = FALSE]

\* RotatingWriter::open on a path that is absent or holds earlier lines
RotInit ==
    /\ config = AppState(BaseConfig)
    /\ task = [r \in Tasks |-> IdleTask]
    /\ served = 0
    /\ metrics = ZeroMetrics(config.order)
    /\ eventSink = <<>>
    /\ auditSink = <<>>
    /\ rejected = <<>>
    /\ fnIn \in [max_bytes : {None, Some(3), Some(4)}, keep : 0..MaxKeep,
                 compress : BOOLEAN]
    /\ fnOut \in {Directory(Some(size)) : size \in {0, 2, 5}}

\* RotatingWriter::write_line_result: check_rotate, then the line and its
\* newline are appended to the open file
WriteLine ==
    /\ fnOut.writes < MaxWrites
    /\ \E len \in LineLens :
         LET dir == check_rotate(fnIn, fnOut)
         IN fnOut' = [dir EXCEPT !.cur = Some(Unwrap(dir.cur) + len + 1),
                                 !.writes = @ + 1, !.line = len + 1]
    /\ UNCHANGED <<config, task, served, metrics, eventSink, auditSink,
                   rejected, fnIn>>

RotNext == WriteLine

RotSpec == RotInit /\ [][RotNext]_vars

C34_TruncatedWithoutBackup ==
    /\ fnIn.max_bytes = Some(3)
    /\ fnIn.keep = 0
    /\ fnOut.rotated
    /\ fnOut.writes >= 3
    /\ fnOut.cur = Some(fnOut.line)
    /\ \A i \in 1..MaxIndex : fnOut.bak[i] = None

----------------------------------------------------------------------------
(* A rejected request *)

\* C35: a request rejected with 400, 401 or 413 leaves all state unchanged:
\* no detector is invoked, no event or audit record is written, and the
\* counters, the latency histogram and the per-detector metrics keep their
\* values.
C35_RejectionLeavesState ==
    [][(/\ Len(rejected') = Len(rejected) + 1
        /\ rejected'[Len(rejected')].httpStatus \in {400, 401, 413})
          => /\ metrics' = metrics
             /\ eventSink' = eventSink
             /\ auditSink' = auditSink
             /\ task' = task
             /\ config' = config]_vars

\* each of the three rejections has been given after a request was counted
\* and recorded
C35_Witness ==
    /\ Len(rejected) >= 1
    /\ rejected[Len(rejected)].httpStatus = 401
    /\ metrics.requests_total = 1
    /\ metrics.hist_count = 1
    /\ eventSink # <<>>

C35_RejectedTooLarge ==
    /\ Len(rejected) >= 1
    /\ rejected[Len(rejected)].httpStatus = 413
    /\ metrics.requests_total = 1

C35_RejectedBadRequest ==
    /\ Len(rejected) >= 1
    /\ rejected[Len(rejected)].httpStatus = 400
    /\ metrics.requests_total = 1

----------------------------------------------------------------------------
(* The order of the counters *)

\* C36: in every reachable state, under any interleaving of concurrent
\* requests, audit_suppressed_total <= blocks_total <= requests_total <= the
\* _count of the request-latency histogram.
C36_CounterChain ==
    /\ metrics.audit_suppressed_total <= metrics.blocks_total
    /\ metrics.blocks_total <= metrics.requests_total
    /\ metrics.requests_total <= metrics.hist_count

\* two requests in flight together: one has counted its suppressed block,
\* the other has been observed in the histogram and not yet counted
C36_Witness ==
    /\ metrics.audit_suppressed_total = 1
    /\ metrics.blocks_total = 1
    /\ metrics.requests_total = 1
    /\ metrics.hist_count = 2
    /\ \A r \in DOMAIN task : task[r].pc \notin {"idle", "done"}

\* both requests counted, both blocks suppressed
C36_AllEqual ==
    /\ metrics.audit_suppressed_total = 2
    /\ metrics.hist_count = 2


\* C37: whenever no analyze request is in flight, requests_total equals the
\* _count of the request-latency histogram and equals the number of 200
\* responses given so far.
C37_QuiescentCountsAgree ==
    Quiescent =>
       /\ metrics.requests_total = metrics.hist_count
       /\ metrics.requests_total = Cardinality(Answered200)

\* two requests that were handled together have both been answered
C37_Witness ==
    /\ Quiescent
    /\ Cardinality(Answered200) = MaxConcurrent
    /\ metrics.requests_total = MaxConcurrent
    /\ metrics.hist_count = MaxConcurrent

\* while a request is in flight the two counters differ
C37_InFlightDiffer ==
    /\ ~Quiescent
    /\ metrics.hist_count = metrics.requests_total + 1

----------------------------------------------------------------------------
(* The verdict as a function of the request and the configuration *)

LocalOnly(cfg) ==
    \A i \in 1..Len(cfg.pipeline) : cfg.pipeline[i].kind # "external_http"

\* the deadline was not found exceeded while the task's request was evaluated
WithinDeadline(t) == \A i \in 1..Len(t.checked) : ~t.checked[i].exceeded

Decided(t) == IsSome(t.raw) /\ IsSome(t.response)

\* the verdict of the first blocking detector from position i on, computed
\* from the request and the configuration alone
RECURSIVE VerdictFrom(_, _, _)
VerdictFrom(i, req, cfg) ==
    IF i > Len(cfg.pipeline) THEN AllowResponse
    ELSE LET pre == from_request_message(req.userMessage, req.chatHistory,
                                         req.inputValues)
             result == PluginEval(cfg.pipeline[i], req, pre, cfg, NoRemote)
         IN IF Blocks(result)
            THEN Unwrap(BlockVerdict(cfg.pipeline[i], result))
            ELSE VerdictFrom(i + 1, req, cfg)

C38_EqualRequests ==
    /\ LocalOnly(config)
    /\ \E r1, r2 \in DOMAIN task :
          /\ r1 # r2
          /\ Decided(task[r1]) /\ WithinDeadline(task[r1])
          /\ Decided(task[r2]) /\ WithinDeadline(task[r2])
          /\ task[r1].req = task[r2].req
          /\ Unwrap(task[r1].raw).blockAction

----------------------------------------------------------------------------
(* The end of a scan of domain_in_text *)

\* C39: domain_in_text terminates for every text and every domain list, an
\* empty domain or a domain that overlaps itself included: each iteration of
\* the scan loop strictly advances the search position.
C39_ScanTerminates ==
    DomainCalled => Unwrap(fnOut).kind # "diverge"

\* what the code does guarantee: a list without the empty domain is scanned
\* to the end, self-overlapping domains included
C39_NonEmptyDomainsTerminate ==
    (DomainCalled /\ \A i \in 1..Len(fnIn.domains) : fnIn.domains[i] # "")
        => Unwrap(fnOut).kind # "diverge"

\* the empty domain on a text that starts with a letter: the rejected hit
\* leaves the search position where it was
C39_SearchPositionStuck ==
    /\ DomainCalled
    /\ fnIn.domains = <<"">>
    /\ fnIn.text = "a"
    /\ Unwrap(fnOut).kind = "diverge"

\* a self-overlapping domain is scanned to the end
C39_SelfOverlapScanned ==
    /\ DomainCalled
    /\ fnIn.domains = <<"a.a">>
    /\ fnIn.text = "aa.a.a"
    /\ Unwrap(fnOut).kind = "none"

====
